---- MODULE Spec2Model ----
(***************************************************************************)
(* Task lifecycle orchestrator (TaskService), its entity repositories and  *)
(* the version-control branch service of task-manager-server.              *)
(*                                                                         *)
(* Three deployments of the orchestrator are modelled side by side:        *)
(*   "direct" - services/TaskService.ts, which drives the git working      *)
(*              copy itself through simple-git;                            *)
(*   "mock"   - the TaskService of services/AuditService.ts (l.493-658),   *)
(*              which delegates to a GitService, over MockGitService;      *)
(*   "real"   - the same TaskService over RealGitService.                  *)
(* Every handler is one atomic action.  Failures of git commands and of    *)
(* SQL statements are inputs of the actions (the environment chooses).     *)
(*                                                                         *)
(* Spec is the orchestrator with its repositories and branch service;      *)
(* RepoSpec is the three entity repositories called on their own, with     *)
(* every column and arbitrary patches; GitSpec is the branch service       *)
(* called on its own, with the merge or rebase git may be left in.         *)
(* CacheSpec is the report cache (services/CacheService.ts) with the time  *)
(* Date.now() returns; MigSpec is the MigrationService with the databases  *)
(* it and the indexService singleton work on.                              *)
(* SeqSpec is the orchestrator called sequentially while no command of the *)
(* branch service fails; ConcSpec is two orchestrator calls running at     *)
(* once, each awaited call being one step.                                 *)
(***************************************************************************)
EXTENDS Integers, Sequences, FiniteSets, TLC

\* ---------------------------------------------------------------- bounds
MaxTasks == 1
MaxLocs == 1
MaxImpls == 1

TaskIds == 1..MaxTasks

\* the ids a caller may pass: those of rows, and one that names no row
CallIds == 1..(MaxTasks + 1)

\* ------------------------------------------------------- program constants
MinPriority == 1
MaxPriority == 5
MinLine == 1

TaskStatus == {"created", "in_progress", "paused", "completed"}
CREATED == "created"
COMPLETED == "completed"

\* branch names: 'master' and `task/${id}`
MASTER == "master"
NullBranch == "null"
TaskBranch(id) == "task/" \o ToString(id)

Variants == {"direct", "mock", "real"}

\* ----------------------------------------------------------- entity schemas
\* An optional field holds "undefined" when omitted, "null" when read back
\* from a NULL column, and a value otherwise; .optional() admits undefined
\* and rejects null.
TaskSchemaAny(t) == TRUE

TaskSchemaOK(t) ==
    /\ t.title # ""
    /\ t.description \in {"text", "undefined"}
    /\ t.priority \in MinPriority..MaxPriority
    /\ t.complexity \in MinPriority..MaxPriority
    /\ t.status \in TaskStatus

CodeLocationSchemaOK(l) ==
    /\ l.start_line >= MinLine
    /\ l.end_line \in {"num", "undefined"}
    /\ l.git_branch # "null"
    /\ l.git_commit # "null"

ImplementationSchemaOK(i) ==
    i.success_rating \in {"undefined", "valid"}

\* A statement parameter: undefined (and `?? null`) is bound as SQL NULL.
BindParam(v) == IF v = "undefined" THEN "null" ELSE v

\* -------------------------------------------------------------- variables
VARIABLES
    variant,          \* which orchestrator is deployed
    tasks,            \* table tasks: id -> row
    codeLocations,    \* table code_locations: sequence of rows
    implementations,  \* table implementations: sequence of rows
    currentBranch,    \* the working copy's checked-out branch
    branches,         \* the branches of the working copy
    merged,           \* <<src, dst>>: branch src was merged into dst
    mainBranch,       \* the orchestrator's cached main-branch name
    lastCall,         \* the last operation, its inputs and its outcome
    \* the repositories on their own (all columns, row ids, timestamps)
    repoKind,         \* which CodeLocation/Implementation repository source
    taskRows,         \* table tasks: id -> full row
    locationRows,     \* table code_locations: id -> full row
    implRows,         \* table implementations: id -> full row
    clock,            \* the last value Date.now() returned
    lastRepo,         \* the last repository call and what it returned
    \* the branch service on its own
    inProgress,       \* the operation git was left in the middle of
    lastGit,          \* the last branch-service call and its git commands
    \* the report cache
    cache,            \* CacheService.cache: key -> entry
    accessOrder,      \* CacheService.accessOrder
    cacheNow,         \* the time Date.now() returns
    claimed,          \* key -> value, ttl and expiry time of its last set
    dropped,          \* keys evicted for room or cleared since their set
    lastCache,        \* the last cache call and its result
    \* the schema migrations
    migDbs,           \* database name -> names of its tables and indexes
    migRecords,       \* database name -> ids in its migrations table
    svcDb,            \* the database the MigrationService works on
    lastMig,          \* the last migration call and its outcome
    \* concurrent orchestrator calls
    procs             \* the calls in flight: process -> its position and locals

repoVars == <<repoKind, taskRows, locationRows, implRows, clock, lastRepo>>

gitVars == <<inProgress, lastGit>>

cacheVars == <<cache, accessOrder, cacheNow, claimed, dropped, lastCache>>

migVars == <<migDbs, migRecords, svcDb, lastMig>>

concVars == <<procs>>

vars == <<variant, tasks, codeLocations, implementations, currentBranch,
          branches, merged, mainBranch, lastCall, repoVars, gitVars,
          cacheVars, migVars, concVars>>

\* ------------------------------------------------------------ call records
\* op, the task id it was given (0: none), the error kind it ended with,
\* the step that failed first, and how the compensation or cleanup went.
Call(op, id, outcome, failedStep, cleanup) ==
    [op |-> op, id |-> id, outcome |-> outcome, failedStep |-> failedStep,
     cleanup |-> cleanup]

NoCall == Call("none", 0, "ok", "none", "none")

\* The state a handler leaves behind.
Result(t, l, i, cur, br, mg, mb, call) ==
    [tasks |-> t, locs |-> l, impls |-> i, cur |-> cur, branches |-> br,
     merged |-> mg, main |-> mb, call |-> call]

Commit(r) ==
    /\ tasks' = r.tasks
    /\ codeLocations' = r.locs
    /\ implementations' = r.impls
    /\ currentBranch' = r.cur
    /\ branches' = r.branches
    /\ merged' = r.merged
    /\ mainBranch' = r.main
    /\ lastCall' = r.call
    /\ UNCHANGED <<variant, repoVars, gitVars, cacheVars, migVars, concVars>>

\* ------------------------------------------------------- task repository
NewTaskId ==
    CHOOSE i \in TaskIds \ DOMAIN tasks :
        \A j \in TaskIds \ DOMAIN tasks : i <= j

\* SQLiteTaskRepository.create: validate, then INSERT.
TaskRepoCreate(t, fields, dbFault) ==
    LET newTask == [title |-> fields.title, description |-> fields.description,
                    priority |-> fields.priority,
                    complexity |-> fields.complexity, status |-> fields.status]
        row == [newTask EXCEPT !.description = BindParam(newTask.description)]
    IN  IF ~TaskSchemaOK(newTask)
        THEN [err |-> "ValidationError", tasks |-> t, id |-> 0]
        ELSE IF dbFault
        THEN [err |-> "DatabaseError", tasks |-> t, id |-> 0]
        ELSE [err |-> "ok", tasks |-> t @@ (NewTaskId :> row), id |-> NewTaskId]

\* SQLiteTaskRepository.findById: null, or the row re-validated.
TaskRepoFindById(t, id) ==
    IF id \notin DOMAIN t THEN "null"
    ELSE IF ~TaskSchemaOK(t[id]) THEN "ValidationError"
    ELSE "ok"

\* SQLiteTaskRepository.update restricted to the status column:
\* find, merge, validate, UPDATE ... status = coalesce(?, status).
TaskRepoUpdate(t, id, status, dbFault) ==
    LET found == TaskRepoFindById(t, id)
    IN  IF found = "null" THEN [err |-> "NotFoundError", tasks |-> t]
        ELSE IF found # "ok" THEN [err |-> found, tasks |-> t]
        ELSE IF ~TaskSchemaOK([t[id] EXCEPT !.status = status])
        THEN [err |-> "ValidationError", tasks |-> t]
        ELSE IF dbFault THEN [err |-> "DatabaseError", tasks |-> t]
        ELSE [err |-> "ok", tasks |-> [t EXCEPT ![id].status = status]]

\* ------------------------------------------------ code location repository
\* SQLiteCodeLocationRepository.create: validate, then INSERT (the foreign
\* key task_id must name a row of tasks).
CodeLocationRepoCreate(l, t, loc, dbFault) ==
    LET row == [task_id |-> loc.task_id, start_line |-> loc.start_line,
                end_line |-> BindParam(loc.end_line),
                git_branch |-> BindParam(loc.git_branch),
                git_commit |-> BindParam(loc.git_commit)]
    IN  IF ~CodeLocationSchemaOK(loc)
        THEN [err |-> "ValidationError", locs |-> l]
        ELSE IF dbFault \/ loc.task_id \notin DOMAIN t
        THEN [err |-> "DatabaseError", locs |-> l]
        ELSE [err |-> "ok", locs |-> Append(l, row)]

\* SQLiteCodeLocationRepository.findByTaskId: the rows, each re-validated.
CodeLocationRepoFindByTaskId(l, id) ==
    IF \E k \in 1..Len(l) : l[k].task_id = id /\ ~CodeLocationSchemaOK(l[k])
    THEN "ValidationError" ELSE "ok"

\* ------------------------------------------------ implementation repository
ImplementationRepoCreate(m, t, impl, dbFault) ==
    LET row == [task_id |-> impl.task_id,
                success_rating |-> BindParam(impl.success_rating)]
    IN  IF ~ImplementationSchemaOK(impl)
        THEN [err |-> "ValidationError", impls |-> m]
        ELSE IF dbFault \/ impl.task_id \notin DOMAIN t
        THEN [err |-> "DatabaseError", impls |-> m]
        ELSE [err |-> "ok", impls |-> Append(m, row)]

ImplementationRepoFindByTaskId(m, id) ==
    IF \E k \in 1..Len(m) : m[k].task_id = id /\ ~ImplementationSchemaOK(m[k])
    THEN "ValidationError" ELSE "ok"

\* ------------------------------------------------- git working copy commands
\* A working copy is [cur, branches, merged]; each command yields
\* [ok, wc].  `fault` is a failure the environment injects (I/O, conflict,
\* dirty tree, ...); a failed command leaves the working copy as it was.
WC(cur, br, mg) == [cur |-> cur, branches |-> br, merged |-> mg]

\* git checkout -b <name> <start>
GitCheckoutBranch(wc, name, start, fault) ==
    IF fault \/ name \in wc.branches \/ start \notin wc.branches
    THEN [ok |-> FALSE, wc |-> wc]
    ELSE [ok |-> TRUE,
          wc |-> WC(name, wc.branches \cup {name},
                    {p \in wc.merged : p[1] # name})]

\* git checkout <b>
GitCheckout(wc, b, fault) ==
    IF fault \/ b \notin wc.branches
    THEN [ok |-> FALSE, wc |-> wc]
    ELSE [ok |-> TRUE, wc |-> WC(b, wc.branches, wc.merged)]

\* git merge <b>: b, and whatever was merged into b, is merged into HEAD
GitMerge(wc, b, fault) ==
    IF fault \/ b \notin wc.branches
    THEN [ok |-> FALSE, wc |-> wc]
    ELSE [ok |-> TRUE,
          wc |-> WC(wc.cur, wc.branches,
                    wc.merged \cup {<<b, wc.cur>>}
                      \cup {<<p[1], wc.cur>> : p \in {q \in wc.merged : q[2] = b}})]

\* git branch -d <b> (force: -D).  The checked-out branch cannot be
\* deleted.  Commits are not modelled: a -d refused because of unmerged
\* commits is one of the injected faults.
GitDeleteLocalBranch(wc, b, force, fault) ==
    IF \/ fault
       \/ b \notin wc.branches
       \/ b = wc.cur
    THEN [ok |-> FALSE, wc |-> wc]
    ELSE [ok |-> TRUE, wc |-> WC(wc.cur, wc.branches \ {b}, wc.merged)]

\* getMainBranch: the first call caches `git branch`'s current branch.
GetMainBranch(mb, wc, fault) ==
    IF mb # NullBranch THEN [ok |-> TRUE, main |-> mb]
    ELSE IF fault THEN [ok |-> FALSE, main |-> mb]
    ELSE [ok |-> TRUE, main |-> wc.cur]

\* ------------------------------------------------------- MockGitService
MockCreateBranchForgets(wc, taskId) ==
    WC(TaskBranch(taskId), wc.branches, wc.merged)

\* createBranch: the branch is added and checked out; it cannot fail.
MockCreateBranch(wc, taskId) ==
    WC(TaskBranch(taskId), wc.branches \cup {TaskBranch(taskId)},
       {p \in wc.merged : p[1] # TaskBranch(taskId)})

MockCleanupBranch(wc, branchName) ==
    WC(MASTER, wc.branches \ {branchName}, wc.merged)

MockCompleteTask(wc, taskId) ==
    IF TaskBranch(taskId) \notin wc.branches
    THEN [ok |-> FALSE, wc |-> wc]
    ELSE [ok |-> TRUE,
          wc |-> WC(MASTER, wc.branches \ {TaskBranch(taskId)},
                    wc.merged \cup {<<TaskBranch(taskId), MASTER>>})]

\* ------------------------------------------------------- RealGitService
\* Each operation yields [err, wc, main]: how it ended, the working copy
\* and the cached main branch it leaves behind.
\* createBranch.  gf: the failing git command (1 `git branch`,
\* 2 `git checkout -b`); every failure is rethrown as GitError.
RealCreateBranch(wc, mb, taskId, gf) ==
    LET gm == GetMainBranch(mb, wc, gf = 1)
        cb == GitCheckoutBranch(wc, TaskBranch(taskId), gm.main, gf = 2)
    IN  IF ~gm.ok THEN [err |-> "GitError", wc |-> wc, main |-> mb]
        ELSE IF ~cb.ok THEN [err |-> "GitError", wc |-> wc, main |-> gm.main]
        ELSE [err |-> "ok", wc |-> cb.wc, main |-> gm.main]

\* cleanupBranch.  cf: the failing git command (1 `git branch`,
\* 2 checkout, 3 branch -D, 4 `git status` or the stash before them).
RealCleanupBranch(wc, mb, branchName, cf) ==
    LET gm == GetMainBranch(mb, wc, cf = 1)
        co == GitCheckout(wc, gm.main, cf = 2)
        dl == GitDeleteLocalBranch(co.wc, branchName, TRUE, cf = 3)
    IN  IF cf = 4 \/ ~gm.ok THEN [err |-> "GitError", wc |-> wc, main |-> mb]
        ELSE IF ~co.ok THEN [err |-> "GitError", wc |-> wc, main |-> gm.main]
        ELSE IF ~dl.ok THEN [err |-> "GitError", wc |-> co.wc, main |-> gm.main]
        ELSE [err |-> "ok", wc |-> dl.wc, main |-> gm.main]

\* completeTask.  gf: the failing git command (1 `git branch` of
\* getMainBranch, which is outside the try block; 2 `git status` or the
\* stash; 3 rev-parse; 4 checkout of main; 5 pull; 6 checkout of the task
\* branch; 7 rebase; 8 checkout of main; 9 merge or the stash pop;
\* 10 branch -D).  The aborts of the catch block move no branch.
RealCompleteTask(wc, mb, taskId, gf) ==
    LET b == TaskBranch(taskId)
        gm == GetMainBranch(mb, wc, gf = 1)
        c1 == IF wc.cur # gm.main THEN GitCheckout(wc, gm.main, gf = 4)
              ELSE [ok |-> TRUE, wc |-> wc]
        c2 == GitCheckout(c1.wc, b, gf = 6)
        c3 == GitCheckout(c2.wc, gm.main, gf = 8)
        mg == GitMerge(c3.wc, b, gf = 9)
        dl == GitDeleteLocalBranch(mg.wc, b, TRUE, gf = 10)
        Fail(w) == [err |-> "GitError", wc |-> w, main |-> gm.main]
    IN  IF ~gm.ok THEN [err |-> "Error", wc |-> wc, main |-> mb]
        ELSE IF gf \in {2, 3} \/ ~c1.ok THEN Fail(wc)
        ELSE IF gf = 5 \/ ~c2.ok THEN Fail(c1.wc)
        ELSE IF gf = 7 \/ ~c3.ok THEN Fail(c2.wc)
        ELSE IF ~mg.ok THEN Fail(c3.wc)
        ELSE IF ~dl.ok THEN Fail(mg.wc)
        ELSE [err |-> "ok", wc |-> dl.wc, main |-> gm.main]

\* ------------------------------------------- the GitService that is injected
GitCreateBranch(wc, mb, taskId, gf) ==
    IF variant = "mock"
    THEN [err |-> "ok", wc |-> MockCreateBranch(wc, taskId), main |-> mb]
    ELSE RealCreateBranch(wc, mb, taskId, gf)

GitCleanupBranch(wc, mb, branchName, cf) ==
    IF variant = "mock"
    THEN [err |-> "ok", wc |-> MockCleanupBranch(wc, branchName), main |-> mb]
    ELSE RealCleanupBranch(wc, mb, branchName, cf)

GitCompleteTask(wc, mb, taskId, gf) ==
    IF variant = "mock"
    THEN [err |-> IF MockCompleteTask(wc, taskId).ok THEN "ok" ELSE "GitError",
          wc |-> MockCompleteTask(wc, taskId).wc, main |-> mb]
    ELSE RealCompleteTask(wc, mb, taskId, gf)

\* ----------------------------------------------------------------- inputs
Titles == {"", "t"}
Descriptions == {"text", "undefined"}
Priorities == {3, 6}
Complexities == {3, 6}
InitialLocations == {"none", "valid", "invalid"}

CreateTaskOptions ==
    [title : Titles, description : Descriptions, priority : Priorities,
     complexity : Complexities, initialCodeLocation : InitialLocations]

ValidOptions(o) ==
    /\ o.title # ""
    /\ o.priority \in MinPriority..MaxPriority
    /\ o.complexity \in MinPriority..MaxPriority

NewTask(o) ==
    [title |-> o.title, description |-> o.description,
     priority |-> o.priority, complexity |-> o.complexity, status |-> CREATED]

InitialLocation(o, id, commit) ==
    [task_id |-> id,
     start_line |-> IF o.initialCodeLocation = "valid" THEN MinLine ELSE MinLine - 1,
     end_line |-> "num", git_branch |-> TaskBranch(id), git_commit |-> commit]

HereWC == WC(currentBranch, branches, merged)

FindOutcomeDatabaseError(found) ==
    IF found = "null" THEN "DatabaseError" ELSE found

\* `if (!task) throw new NotFoundError(...)`; a corrupt row's
\* ValidationError passes through.
FindOutcome(found) == IF found = "null" THEN "NotFoundError" ELSE found

\* --------------------------------------------------------------- createTask
NeverCleanup(err, created) == FALSE

AlwaysCleanup(err, created) == TRUE

\* The catch block cleans the branch up for a GitError of a created task.
CleanupApplies(err, created) == err = "GitError" /\ created

\* services/TaskService.ts createTask.  gf: the git command of the main
\* path that fails (1 `git branch`, 2 `git checkout -b`); cf: the one of
\* the cleanup that fails (1 `git branch`, 2 checkout, 3 branch -d);
\* dbf: the INSERT that fails (1 tasks, 2 code_locations).
DirectCreateTask(o, gf, cf, dbf) ==
    LET cr == TaskRepoCreate(tasks, NewTask(o), dbf = 1)
        id == cr.id
        created == cr.err = "ok"
        gm == GetMainBranch(mainBranch, HereWC, gf = 1)
        cb == GitCheckoutBranch(HereWC, TaskBranch(id), gm.main, gf = 2)
        hasLoc == o.initialCodeLocation # "none"
        lc == CodeLocationRepoCreate(codeLocations, cr.tasks,
                                     InitialLocation(o, id, "undefined"), dbf = 2)
        \* how the try block ends
        err == IF ~created THEN cr.err
               ELSE IF ~gm.ok \/ ~cb.ok THEN "GitError"
               ELSE IF hasLoc THEN lc.err ELSE "ok"
        step == IF err = "ok" THEN "none"
                ELSE IF ~created THEN "taskWrite"
                ELSE IF ~gm.ok \/ ~cb.ok THEN "branch" ELSE "locationWrite"
        twc == IF created /\ gm.ok /\ cb.ok THEN cb.wc ELSE HereWC
        tmain == IF created THEN gm.main ELSE mainBranch
        tlocs == IF err = "ok" /\ hasLoc THEN lc.locs ELSE codeLocations
        \* the catch block
        clean == err # "ok" /\ CleanupApplies(err, created)
        cgm == GetMainBranch(tmain, twc, cf = 1)
        cco == GitCheckout(twc, cgm.main, cf = 2)
        cdl == GitDeleteLocalBranch(cco.wc, TaskBranch(id), FALSE, cf = 3)
        cwc == IF ~clean \/ ~cgm.ok \/ ~cco.ok THEN twc ELSE cdl.wc
        cmain == IF clean THEN cgm.main ELSE tmain
        cok == cgm.ok /\ cco.ok /\ cdl.ok
    IN  Result(cr.tasks, tlocs, implementations, cwc.cur, cwc.branches,
               cwc.merged, cmain,
               Call("createTask", id, err, step,
                    IF ~clean THEN "none" ELSE IF cok THEN "ok" ELSE "failed"))

\* services/AuditService.ts TaskService.createTask.  gf, cf: the failing
\* git command of gitService.createBranch and of gitService.cleanupBranch.
ServiceCreateTask(o, gf, cf, dbf) ==
    LET cr == TaskRepoCreate(tasks, NewTask(o), dbf = 1)
        id == cr.id
        created == cr.err = "ok"
        cb == GitCreateBranch(HereWC, mainBranch, id, gf)
        hasLoc == o.initialCodeLocation # "none"
        lc == CodeLocationRepoCreate(codeLocations, cr.tasks,
                                     InitialLocation(o, id, "undefined"), dbf = 2)
        err == IF ~created THEN cr.err
               ELSE IF cb.err # "ok" THEN cb.err
               ELSE IF hasLoc THEN lc.err ELSE "ok"
        step == IF err = "ok" THEN "none"
                ELSE IF ~created THEN "taskWrite"
                ELSE IF cb.err # "ok" THEN "branch" ELSE "locationWrite"
        twc == IF created THEN cb.wc ELSE HereWC
        tmain == IF created THEN cb.main ELSE mainBranch
        tlocs == IF err = "ok" /\ hasLoc THEN lc.locs ELSE codeLocations
        clean == err # "ok" /\ CleanupApplies(err, created)
        cl == GitCleanupBranch(twc, tmain, TaskBranch(id), cf)
    IN  Result(cr.tasks, tlocs, implementations,
               IF clean THEN cl.wc.cur ELSE twc.cur,
               IF clean THEN cl.wc.branches ELSE twc.branches,
               IF clean THEN cl.wc.merged ELSE twc.merged,
               IF clean THEN cl.main ELSE tmain,
               Call("createTask", id, err, step,
                    IF ~clean THEN "none"
                    ELSE IF cl.err = "ok" THEN "ok" ELSE "failed"))

\* the failures the environment may inject into one createTask call:
\* <<gf, cf, dbf>>, a cleanup failure only after a branch failure
CreateFaults ==
    {f \in (0..2) \X (0..4) \X (0..2) :
        /\ f[1] = 0 => f[2] = 0
        /\ f[1] # 0 => f[3] = 0}

CreateTask ==
    \E o \in CreateTaskOptions, f \in CreateFaults :
        /\ \/ TaskIds \ DOMAIN tasks # {} /\ Len(codeLocations) < MaxLocs
           \/ ~ValidOptions(o) \/ f[3] = 1
        /\ ~ValidOptions(o) => f = <<0, 0, 0>> /\ o.initialCodeLocation = "none"
                               /\ o.description = "text"
        /\ o.initialCodeLocation = "none" => f[3] # 2
        /\ variant = "mock" => f[1] = 0
        /\ variant = "direct" => f[2] # 4
        /\ Commit(IF variant = "direct"
                  THEN DirectCreateTask(o, f[1], f[2], f[3])
                  ELSE ServiceCreateTask(o, f[1], f[2], f[3]))

\* ---------------------------------------------------------- addCodeLocation
LocationInputs == [start_line : {MinLine - 1, MinLine}, end_line : {"num"}]

NewLocation(id, loc, commit) ==
    [task_id |-> id, start_line |-> loc.start_line, end_line |-> loc.end_line,
     git_branch |-> TaskBranch(id), git_commit |-> commit]

\* The guard of addCodeLocation on the branch that was read.
OnTaskBranch(cur, id) == cur = TaskBranch(id)

\* services/TaskService.ts addCodeLocation.  gf: the failing git command
\* (1 rev-parse --abbrev-ref HEAD, 2 rev-parse HEAD); a failure that is
\* not a GitError is rethrown as DatabaseError.
DirectAddCodeLocation(id, loc, gf, dbFault) ==
    LET found == TaskRepoFindById(tasks, id)
        lc == CodeLocationRepoCreate(codeLocations, tasks,
                                     NewLocation(id, loc, "hash"), dbFault)
        Fail(outcome, step) ==
            Result(tasks, codeLocations, implementations, currentBranch,
                   branches, merged, mainBranch,
                   Call("addCodeLocation", id, outcome, step, "none"))
    IN  IF found # "ok" THEN Fail(FindOutcome(found), "find")
        ELSE IF gf = 1 THEN Fail("DatabaseError", "branchRead")
        ELSE IF ~OnTaskBranch(currentBranch, id) THEN Fail("GitError", "precondition")
        ELSE IF gf = 2 THEN Fail("DatabaseError", "branchRead")
        ELSE IF lc.err # "ok" THEN Fail(lc.err, "locationWrite")
        ELSE Result(tasks, lc.locs, implementations, currentBranch, branches,
                    merged, mainBranch,
                    Call("addCodeLocation", id, "ok", "none", "none"))

\* services/AuditService.ts TaskService.addCodeLocation.  gf = 1: the
\* rev-parse of RealGitService.getCurrentBranch fails.
ServiceAddCodeLocation(id, loc, gf, dbFault) ==
    LET found == TaskRepoFindById(tasks, id)
        lc == CodeLocationRepoCreate(codeLocations, tasks,
                                     NewLocation(id, loc, "undefined"), dbFault)
        Fail(outcome, step) ==
            Result(tasks, codeLocations, implementations, currentBranch,
                   branches, merged, mainBranch,
                   Call("addCodeLocation", id, outcome, step, "none"))
    IN  IF found # "ok" THEN Fail(FindOutcome(found), "find")
        ELSE IF gf = 1 THEN Fail("DatabaseError", "branchRead")
        ELSE IF ~OnTaskBranch(currentBranch, id) THEN Fail("GitError", "precondition")
        ELSE IF lc.err # "ok" THEN Fail(lc.err, "locationWrite")
        ELSE Result(tasks, lc.locs, implementations, currentBranch, branches,
                    merged, mainBranch,
                    Call("addCodeLocation", id, "ok", "none", "none"))

AddCodeLocation ==
    \E id \in CallIds, loc \in LocationInputs, gf \in 0..2, dbFault \in BOOLEAN :
        /\ Len(codeLocations) < MaxLocs \/ id \notin DOMAIN tasks
        /\ gf # 0 => ~dbFault
        /\ variant = "mock" => gf = 0
        /\ variant = "real" => gf # 2
        /\ Commit(IF variant = "direct"
                  THEN DirectAddCodeLocation(id, loc, gf, dbFault)
                  ELSE ServiceAddCodeLocation(id, loc, gf, dbFault))

\* ------------------------------------------------------ recordImplementation
Ratings == {"valid", "invalid"}

DoRecordImplementation(id, rating, dbFault) ==
    LET found == TaskRepoFindById(tasks, id)
        ic == ImplementationRepoCreate(implementations, tasks,
                  [task_id |-> id, success_rating |-> rating], dbFault)
        Fail(outcome, step) ==
            Result(tasks, codeLocations, implementations, currentBranch,
                   branches, merged, mainBranch,
                   Call("recordImplementation", id, outcome, step, "none"))
    IN  IF found # "ok" THEN Fail(FindOutcome(found), "find")
        ELSE IF ic.err # "ok" THEN Fail(ic.err, "implementationWrite")
        ELSE Result(tasks, codeLocations, ic.impls, currentBranch, branches,
                    merged, mainBranch,
                    Call("recordImplementation", id, "ok", "none", "none"))

RecordImplementation ==
    \E id \in CallIds, rating \in Ratings, dbFault \in BOOLEAN :
        /\ Len(implementations) < MaxImpls \/ id \notin DOMAIN tasks
        /\ Commit(DoRecordImplementation(id, rating, dbFault))

\* -------------------------------------------------------- getTaskWithDetails
DoGetTaskWithDetails(id) ==
    LET found == TaskRepoFindById(tasks, id)
        Done(outcome, step) ==
            Result(tasks, codeLocations, implementations, currentBranch,
                   branches, merged, mainBranch,
                   Call("getTaskWithDetails", id, outcome, step, "none"))
    IN  IF found # "ok" THEN Done(FindOutcome(found), "find")
        ELSE IF CodeLocationRepoFindByTaskId(codeLocations, id) # "ok"
        THEN Done("ValidationError", "read")
        ELSE IF ImplementationRepoFindByTaskId(implementations, id) # "ok"
        THEN Done("ValidationError", "read")
        ELSE Done("ok", "none")

GetTaskWithDetails ==
    \E id \in CallIds : Commit(DoGetTaskWithDetails(id))

\* ---------------------------------------------------------- updateTaskStatus
DoUpdateTaskStatus(id, status, dbFault) ==
    LET found == TaskRepoFindById(tasks, id)
        up == TaskRepoUpdate(tasks, id, status, dbFault)
    IN  Result(up.tasks, codeLocations, implementations, currentBranch,
               branches, merged, mainBranch,
               Call("updateTaskStatus", id,
                    IF found # "ok" THEN FindOutcome(found) ELSE up.err,
                    IF found # "ok" THEN "find"
                    ELSE IF up.err # "ok" THEN "statusWrite" ELSE "none",
                    "none"))

UpdateTaskStatus ==
    \E id \in CallIds, status \in TaskStatus, dbFault \in BOOLEAN :
        Commit(DoUpdateTaskStatus(id, status, dbFault))

\* -------------------------------------------------------------- completeTask
RevertToCreated(old) == CREATED

\* The status the compensation writes back: the status read on entry.
RevertStatus(old) == old

\* doesBranchExist: a failing `git branch` is reported as "no such branch".
DoesBranchExist(wc, branchName, fault) ==
    IF fault THEN FALSE ELSE branchName \in wc.branches

\* services/TaskService.ts completeTask.  gf: the failing git command
\* (1 `git branch` of getMainBranch, 2 `git branch` of doesBranchExist,
\* 3 rev-parse, 4 checkout, 5 merge, 6 branch -d); dbf: the failing UPDATE
\* (1 the write of COMPLETED, 2 the compensating write).
DirectCompleteTask(id, gf, dbf) ==
    LET found == TaskRepoFindById(tasks, id)
        b == TaskBranch(id)
        old == tasks[id].status
        gm == GetMainBranch(mainBranch, HereWC, gf = 1)
        u1 == TaskRepoUpdate(tasks, id, COMPLETED, dbf = 1)
        exists == DoesBranchExist(HereWC, b, gf = 2)
        co == IF currentBranch # gm.main
              THEN GitCheckout(HereWC, gm.main, gf = 4)
              ELSE [ok |-> TRUE, wc |-> HereWC]
        mg == GitMerge(co.wc, b, gf = 5)
        dl == GitDeleteLocalBranch(mg.wc, b, FALSE, gf = 6)
        gitOk == gf # 3 /\ co.ok /\ mg.ok /\ dl.ok
        \* the working copy the try block leaves behind
        wc == IF gf = 3 \/ ~co.ok THEN HereWC
              ELSE IF ~mg.ok THEN co.wc
              ELSE dl.wc
        u2 == TaskRepoUpdate(u1.tasks, id, RevertStatus(old), dbf = 2)
        Fail(outcome, step) ==
            Result(tasks, codeLocations, implementations, currentBranch,
                   branches, merged, mainBranch,
                   Call("completeTask", id, outcome, step, "none"))
    IN  IF found # "ok" THEN Fail(FindOutcome(found), "find")
        ELSE IF ~gm.ok THEN Fail("Error", "branch")
        ELSE IF u1.err # "ok"
        THEN Result(tasks, codeLocations, implementations, currentBranch,
                    branches, merged, gm.main,
                    Call("completeTask", id, u1.err, "statusWrite", "none"))
        ELSE IF ~exists
        THEN Result(u1.tasks, codeLocations, implementations, currentBranch,
                    branches, merged, gm.main,
                    Call("completeTask", id, "ok",
                         IF gf = 2 THEN "branchList" ELSE "noBranch", "none"))
        ELSE IF gitOk
        THEN Result(u1.tasks, codeLocations, implementations, wc.cur,
                    wc.branches, wc.merged, gm.main,
                    Call("completeTask", id, "ok", "none", "none"))
        ELSE Result(u2.tasks, codeLocations, implementations, wc.cur,
                    wc.branches, wc.merged, gm.main,
                    Call("completeTask", id,
                         IF u2.err # "ok" THEN u2.err ELSE "GitError",
                         "branch",
                         IF u2.err # "ok" THEN "failed" ELSE "ok"))

\* services/AuditService.ts TaskService.completeTask: the branch step
\* first, then the write of COMPLETED; on any failure the status read on
\* entry is written back and the first error is rethrown.  gf: the
\* failing git command of gitService.completeTask; dbf as above.
ServiceCompleteTask(id, gf, dbf) ==
    LET found == TaskRepoFindById(tasks, id)
        old == tasks[id].status
        gc == GitCompleteTask(HereWC, mainBranch, id, gf)
        u1 == TaskRepoUpdate(tasks, id, COMPLETED, dbf = 1)
        u2 == TaskRepoUpdate(tasks, id, RevertStatus(old), dbf = 2)
        Fail(outcome, step) ==
            Result(tasks, codeLocations, implementations, currentBranch,
                   branches, merged, mainBranch,
                   Call("completeTask", id, outcome, step, "none"))
    IN  IF found # "ok" THEN Fail(FindOutcome(found), "find")
        ELSE IF gc.err # "ok"
        THEN Result(u2.tasks, codeLocations, implementations, gc.wc.cur,
                    gc.wc.branches, gc.wc.merged, gc.main,
                    Call("completeTask", id,
                         IF u2.err # "ok" THEN u2.err ELSE gc.err,
                         "branch",
                         IF u2.err # "ok" THEN "failed" ELSE "ok"))
        ELSE IF u1.err # "ok"
        THEN Result(u2.tasks, codeLocations, implementations, gc.wc.cur,
                    gc.wc.branches, gc.wc.merged, gc.main,
                    Call("completeTask", id,
                         IF u2.err # "ok" THEN u2.err ELSE u1.err,
                         "statusWrite",
                         IF u2.err # "ok" THEN "failed" ELSE "ok"))
        ELSE Result(u1.tasks, codeLocations, implementations, gc.wc.cur,
                    gc.wc.branches, gc.wc.merged, gc.main,
                    Call("completeTask", id, "ok", "none", "none"))

\* the failures the environment may inject into one completeTask call:
\* <<gf, dbf>>, at most one of the two COMPLETED-path failures
CompleteFaults ==
    {f \in (0..10) \X (0..2) :
        /\ f[1] = 1 => f[2] = 0
        /\ f[2] = 1 => f[1] = 0}

CompleteTask ==
    \E id \in CallIds, f \in CompleteFaults :
        /\ variant = "mock" => f[1] = 0
        /\ variant = "direct" => f[1] <= 6 /\ (f[1] = 2 => f[2] = 0)
        /\ Commit(IF variant = "direct" THEN DirectCompleteTask(id, f[1], f[2])
                  ELSE ServiceCompleteTask(id, f[1], f[2]))

\* -------------------------------------------------------------- environment
\* Someone checks another branch out in the working copy.
ExternalCheckout ==
    /\ variant # "mock"
    /\ \E b \in branches \ {currentBranch} :
        Commit(Result(tasks, codeLocations, implementations, b, branches,
                      merged, mainBranch, Call("checkout", 0, "ok", "none", "none")))

\* A caller uses the injected MockGitService directly.
GitServiceCreateBranch ==
    /\ variant = "mock"
    /\ \E id \in TaskIds :
        LET wc == MockCreateBranch(HereWC, id)
        IN  Commit(Result(tasks, codeLocations, implementations, wc.cur,
                          wc.branches, wc.merged, mainBranch,
                          Call("createBranch", id, "ok", "none", "none")))

GitServiceCleanupBranch ==
    /\ variant = "mock"
    /\ \E id \in TaskIds :
        LET wc == MockCleanupBranch(HereWC, TaskBranch(id))
        IN  Commit(Result(tasks, codeLocations, implementations, wc.cur,
                          wc.branches, wc.merged, mainBranch,
                          Call("cleanupBranch", id, "ok", "none", "none")))

\* A new TaskService (a request handler's, or a restarted process's) is
\* constructed: the main-branch cache of what drives git is empty.
NewTaskService ==
    /\ variant # "mock"
    /\ mainBranch # NullBranch
    /\ Commit(Result(tasks, codeLocations, implementations, currentBranch,
                     branches, merged, NullBranch,
                     Call("new", 0, "ok", "none", "none")))

\* ============================================= the branch service on its own
\* op, the task id it was given, the error kind it ended with, and the
\* aborts (`git merge --abort`, `git rebase --abort`) its catch block ran
GitCall(op, id, outcome, aborts) ==
    [op |-> op, id |-> id, outcome |-> outcome, aborts |-> aborts]

NoGitCall == GitCall("none", 0, "ok", {})

\* ================================================ the repositories on their own
\* The three SQLite repositories, called directly with arbitrary entities and
\* patches.  Rows carry every column the repositories write: the optional
\* columns, the owning task and the timestamps.  The CodeLocation and the
\* Implementation repository exist in two sources each:
\*   "byTaskId" - repositories/CodeLocationRepository.ts and the
\*                SQLiteImplementationRepository of part_012: update looks
\*                the row up through findByTaskId(patch.task_id ?? ''), and
\*                every column of the UPDATE is coalesce(?, column);
\*   "byId"     - the SQLiteCodeLocationRepository of index.ts (l.209-411) and
\*                the SQLiteImplementationRepository of part_011: update
\*                looks the row up by id, and the optional columns of the
\*                UPDATE are plain `column = ?`.
MaxRepoTasks == 1
MaxRepoLocs == 1
MaxRepoImpls == 1
MaxClock == 1

RepoTaskIds == 1..MaxRepoTasks
RepoLocIds == 1..MaxRepoLocs
RepoImplIds == 1..MaxRepoImpls

\* the ids a caller may pass: those of rows, and one that names no row
RepoCallIds == 1..(MaxRepoTasks + 1)

RepoKinds == {"byTaskId", "byId"}

\* `patch.task_id ?? ''`: the empty string is the id of no task
NoTaskId == 0

\* entity: "task", "location", "implementation"; patch and ret are sets of
\* at most one record: the patch the call was given, the entity it returned
RepoCall(op, entity, id, outcome, patch, ret) ==
    [op |-> op, entity |-> entity, id |-> id, outcome |-> outcome,
     patch |-> patch, ret |-> ret]

NoRepoCall == RepoCall("none", "none", 0, "ok", {}, {})

\* uuidv4(): an id no row has
NewRowId(rows, ids) ==
    CHOOSE i \in ids : i \notin DOMAIN rows /\
                       \A j \in ids : j \notin DOMAIN rows => i <= j

\* { ...existing, ...patch }
Merge(existing, patch) ==
    [f \in DOMAIN existing \cup DOMAIN patch |->
        IF f \in DOMAIN patch THEN patch[f] ELSE existing[f]]

\* `patch.field ?? null` as a statement parameter: {} is SQL NULL
Param(patch, f) == IF f \in DOMAIN patch THEN {patch[f]} ELSE {}

\* column = coalesce(?, column)
Coalesce(param, old) == IF param = {} THEN old ELSE CHOOSE v \in param : TRUE

\* column = ?
Overwrite(param) == IF param = {} THEN "null" ELSE CHOOSE v \in param : TRUE

RemoveRow(rows, id) == [i \in DOMAIN rows \ {id} |-> rows[i]]

\* ---------------------------------------------------- SQLiteTaskRepository
\* create: timestamps from Date.now(), validation, INSERT
TaskRepositoryCreate(rows, fields, now) ==
    LET newTask == Merge(fields, [created_at |-> now, updated_at |-> now])
        id == NewRowId(rows, RepoTaskIds)
    IN  IF ~TaskSchemaOK(newTask)
        THEN [err |-> "ValidationError", rows |-> rows, id |-> 0, ret |-> {}]
        ELSE [err |-> "ok",
              rows |-> (id :> [newTask EXCEPT
                                 !.description = BindParam(@)]) @@ rows,
              id |-> id, ret |-> {newTask}]

\* findById: null when no row, the row re-validated otherwise
TaskRepositoryFindById(rows, id) ==
    IF id \notin DOMAIN rows THEN [err |-> "null", ret |-> {}]
    ELSE IF ~TaskSchemaOK(rows[id])
         THEN [err |-> "ValidationError", ret |-> {}]
         ELSE [err |-> "ok", ret |-> {rows[id]}]

\* an update that persists the patch without validating the merged entity
TaskRepositoryUpdateUnchecked(rows, id, patch, now) ==
    IF id \notin DOMAIN rows
    THEN [err |-> "NotFoundError", rows |-> rows, ret |-> {}]
    ELSE [err |-> "ok",
          rows |-> [rows EXCEPT ![id] =
                       Merge(rows[id], Merge(patch, [updated_at |-> now]))],
          ret |-> {Merge(rows[id], Merge(patch, [updated_at |-> now]))}]

\* update: findById, merge, validation, UPDATE ... coalesce(?, column)
TaskRepositoryUpdate(rows, id, patch, now) ==
    LET found == TaskRepositoryFindById(rows, id)
        updatedTask == Merge(rows[id], Merge(patch, [updated_at |-> now]))
        stored == [rows[id] EXCEPT
            !.title = Coalesce(Param(patch, "title"), @),
            !.description = Coalesce(Param(patch, "description"), @),
            !.priority = Coalesce(Param(patch, "priority"), @),
            !.complexity = Coalesce(Param(patch, "complexity"), @),
            !.status = Coalesce(Param(patch, "status"), @),
            !.updated_at = now]
    IN  IF found.err = "ValidationError"
        THEN [err |-> "ValidationError", rows |-> rows, ret |-> {}]
        ELSE IF found.err = "null"
        THEN [err |-> "NotFoundError", rows |-> rows, ret |-> {}]
        ELSE IF ~TaskSchemaOK(updatedTask)
        THEN [err |-> "ValidationError", rows |-> rows, ret |-> {}]
        ELSE [err |-> "ok", rows |-> [rows EXCEPT ![id] = stored],
              ret |-> {updatedTask}]

\* FOREIGN KEY(task_id) REFERENCES tasks(id), no ON DELETE clause: with
\* foreign keys enforced (the driver's default) a referenced task cannot be
\* deleted and a row cannot name a task that does not exist.
ReferencedNever(locs, impls, taskId) == FALSE

Referenced(locs, impls, taskId) ==
    \/ \E i \in DOMAIN locs : locs[i].task_id = taskId
    \/ \E i \in DOMAIN impls : impls[i].task_id = taskId

\* delete: findById; only NotFoundError passes the catch unchanged
TaskRepositoryDelete(rows, locs, impls, id) ==
    LET found == TaskRepositoryFindById(rows, id)
    IN  IF found.err = "null"
        THEN [err |-> "NotFoundError", rows |-> rows]
        ELSE IF found.err = "ValidationError" \/ Referenced(locs, impls, id)
        THEN [err |-> "DatabaseError", rows |-> rows]
        ELSE [err |-> "ok", rows |-> RemoveRow(rows, id)]

\* ------------------------------------------- SQLiteCodeLocationRepository
\* create: validation, INSERT with `?? null` for the optional columns
CodeLocationRepositoryCreate(rows, taskRws, location) ==
    LET id == NewRowId(rows, RepoLocIds)
    IN  IF ~CodeLocationSchemaOK(location)
        THEN [err |-> "ValidationError", rows |-> rows, id |-> 0, ret |-> {}]
        ELSE IF location.task_id \notin DOMAIN taskRws
        THEN [err |-> "DatabaseError", rows |-> rows, id |-> 0, ret |-> {}]
        ELSE [err |-> "ok",
              rows |-> (id :> [location EXCEPT
                                 !.end_line = BindParam(@),
                                 !.git_branch = BindParam(@),
                                 !.git_commit = BindParam(@)]) @@ rows,
              id |-> id, ret |-> {location}]

\* SELECT * ... WHERE task_id = ?, every row re-validated
SelectByTaskId(rows, taskId) == {i \in DOMAIN rows : rows[i].task_id = taskId}

CodeLocationRepositoryFindByTaskId(rows, taskId) ==
    LET hits == SelectByTaskId(rows, taskId)
    IN  IF \E i \in hits : ~CodeLocationSchemaOK(rows[i])
        THEN [err |-> "ValidationError", ids |-> {}]
        ELSE [err |-> "ok", ids |-> hits]

\* findById (index.ts): null when no row, the row re-validated otherwise
CodeLocationRepositoryFindById(rows, id) ==
    IF id \notin DOMAIN rows THEN "null"
    ELSE IF ~CodeLocationSchemaOK(rows[id]) THEN "ValidationError"
    ELSE "ok"

\* how update finds the row it is to change
FindExistingLocation(kind, rows, id, patch) ==
    IF kind = "byId" THEN CodeLocationRepositoryFindById(rows, id)
    ELSE LET existingLocations == CodeLocationRepositoryFindByTaskId(rows,
                 IF "task_id" \in DOMAIN patch THEN patch.task_id
                 ELSE NoTaskId)
         IN  IF existingLocations.err # "ok" THEN existingLocations.err
             ELSE IF id \in existingLocations.ids THEN "ok" ELSE "null"

\* the row the UPDATE statement leaves
OptionalColumn(kind, param, old) ==
    IF kind = "byId" THEN Overwrite(param) ELSE Coalesce(param, old)

CodeLocationRepositoryUpdate(kind, rows, id, patch) ==
    LET found == FindExistingLocation(kind, rows, id, patch)
        updatedLocation == Merge(rows[id], patch)
        stored == [rows[id] EXCEPT
            !.start_line = Coalesce(Param(patch, "start_line"), @),
            !.end_line = OptionalColumn(kind, Param(patch, "end_line"), @),
            !.git_branch =
                OptionalColumn(kind, Param(patch, "git_branch"), @),
            !.git_commit =
                OptionalColumn(kind, Param(patch, "git_commit"), @)]
    IN  IF found = "ValidationError"
        THEN [err |-> "ValidationError", rows |-> rows, ret |-> {}]
        ELSE IF found = "null"
        THEN [err |-> "NotFoundError", rows |-> rows, ret |-> {}]
        ELSE IF ~CodeLocationSchemaOK(updatedLocation)
        THEN [err |-> "ValidationError", rows |-> rows, ret |-> {}]
        ELSE [err |-> "ok", rows |-> [rows EXCEPT ![id] = stored],
              ret |-> {updatedLocation}]

\* ----------------------------------------- SQLiteImplementationRepository
ImplementationRepositoryCreate(rows, taskRws, impl) ==
    LET id == NewRowId(rows, RepoImplIds)
    IN  IF ~ImplementationSchemaOK(impl)
        THEN [err |-> "ValidationError", rows |-> rows, id |-> 0, ret |-> {}]
        ELSE IF impl.task_id \notin DOMAIN taskRws
        THEN [err |-> "DatabaseError", rows |-> rows, id |-> 0, ret |-> {}]
        ELSE [err |-> "ok",
              rows |-> (id :> [impl EXCEPT
                                 !.success_rating = BindParam(@)]) @@ rows,
              id |-> id, ret |-> {impl}]

ImplementationRepositoryFindByTaskId(rows, taskId) ==
    LET hits == SelectByTaskId(rows, taskId)
    IN  IF \E i \in hits : ~ImplementationSchemaOK(rows[i])
        THEN [err |-> "ValidationError", ids |-> {}]
        ELSE [err |-> "ok", ids |-> hits]

ImplementationRepositoryFindById(rows, id) ==
    IF id \notin DOMAIN rows THEN "null"
    ELSE IF ~ImplementationSchemaOK(rows[id]) THEN "ValidationError"
    ELSE "ok"

FindExistingImpl(kind, rows, id, patch) ==
    IF kind = "byId" THEN ImplementationRepositoryFindById(rows, id)
    ELSE LET existing == ImplementationRepositoryFindByTaskId(rows,
                 IF "task_id" \in DOMAIN patch THEN patch.task_id
                 ELSE NoTaskId)
         IN  IF existing.err # "ok" THEN existing.err
             ELSE IF id \in existing.ids THEN "ok" ELSE "null"

ImplementationRepositoryUpdate(kind, rows, id, patch) ==
    LET found == FindExistingImpl(kind, rows, id, patch)
        updatedImpl == Merge(rows[id], patch)
        stored == [rows[id] EXCEPT
            !.pattern_type = Coalesce(Param(patch, "pattern_type"), @),
            !.success_rating =
                OptionalColumn(kind, Param(patch, "success_rating"), @)]
    IN  IF found = "ValidationError"
        THEN [err |-> "ValidationError", rows |-> rows, ret |-> {}]
        ELSE IF found = "null"
        THEN [err |-> "NotFoundError", rows |-> rows, ret |-> {}]
        ELSE IF ~ImplementationSchemaOK(updatedImpl)
        THEN [err |-> "ValidationError", rows |-> rows, ret |-> {}]
        ELSE [err |-> "ok", rows |-> [rows EXCEPT ![id] = stored],
              ret |-> {updatedImpl}]

\* ------------------------------------------------------- repository inputs
TaskInputs ==
    [title : {"t"}, description : {"text", "undefined"}, priority : {3, 6},
     complexity : {3, 0}, status : {"created", "bogus"}]

TaskPatches ==
    {[status |-> "completed"], [status |-> "bogus"], [priority |-> 5],
     [priority |-> 6], [complexity |-> 0]}

LocationRowInputs ==
    [task_id : RepoCallIds, start_line : {1, 0},
     end_line : {"num", "undefined"}, git_branch : {"branch"},
     git_commit : {"hash", "undefined"}]

LocationPatches ==
    {[start_line |-> 2], [start_line |-> 0],
     [end_line |-> "num", git_branch |-> "branch", git_commit |-> "hash"]}
    \cup {[task_id |-> t, start_line |-> n] : t \in RepoCallIds, n \in {2, 0}}

ImplInputs ==
    [task_id : RepoCallIds, pattern_type : {"p"},
     success_rating : {"valid", "undefined", "invalid"}]

ImplPatches ==
    {[pattern_type |-> "q"], [success_rating |-> "invalid"],
     [success_rating |-> "valid"]}
    \cup {[task_id |-> t, pattern_type |-> "q"] : t \in RepoCallIds}
    \cup {[task_id |-> t, success_rating |-> "invalid"] : t \in RepoCallIds}

\* Date.now() does not run backwards
Now(now) == now \in clock..MaxClock

RepoCommit(t, l, i, now, call) ==
    /\ taskRows' = t
    /\ locationRows' = l
    /\ implRows' = i
    /\ clock' = now
    /\ lastRepo' = call
    /\ UNCHANGED <<repoKind, variant, tasks, codeLocations, implementations,
                   currentBranch, branches, merged, mainBranch, lastCall,
                   gitVars, cacheVars, migVars, concVars>>

\* ------------------------------------------------------ repository actions
CreateTaskRow ==
    \E fields \in TaskInputs, now \in 0..MaxClock :
      /\ Now(now)
      /\ DOMAIN taskRows # RepoTaskIds \/ ~TaskSchemaOK(fields)
      /\ LET r == TaskRepositoryCreate(taskRows, fields, now)
         IN  RepoCommit(r.rows, locationRows, implRows, now,
                        RepoCall("create", "task", r.id, r.err, {}, r.ret))

UpdateTaskRow ==
    \E id \in RepoCallIds, patch \in TaskPatches, now \in 0..MaxClock :
      /\ Now(now)
      /\ LET r == TaskRepositoryUpdate(taskRows, id, patch, now)
         IN  RepoCommit(r.rows, locationRows, implRows, now,
                        RepoCall("update", "task", id, r.err, {patch}, r.ret))

DeleteTaskRow ==
    \E id \in RepoCallIds :
      LET r == TaskRepositoryDelete(taskRows, locationRows, implRows, id)
      IN  RepoCommit(r.rows, locationRows, implRows, clock,
                     RepoCall("delete", "task", id, r.err, {}, {}))

CreateLocationRow ==
    \E location \in LocationRowInputs :
      /\ \/ DOMAIN locationRows # RepoLocIds
         \/ ~CodeLocationSchemaOK(location)
         \/ location.task_id \notin DOMAIN taskRows
      /\ LET r == CodeLocationRepositoryCreate(locationRows, taskRows,
                                               location)
         IN  RepoCommit(taskRows, r.rows, implRows, clock,
                        RepoCall("create", "location", r.id, r.err, {},
                                 r.ret))

UpdateLocationRow ==
    \E id \in 1..(MaxRepoLocs + 1), patch \in LocationPatches :
      LET r == CodeLocationRepositoryUpdate(repoKind, locationRows, id, patch)
      IN  RepoCommit(taskRows, r.rows, implRows, clock,
                     RepoCall("update", "location", id, r.err, {patch},
                              r.ret))

CreateImplementationRow ==
    \E impl \in ImplInputs :
      /\ \/ DOMAIN implRows # RepoImplIds
         \/ ~ImplementationSchemaOK(impl)
         \/ impl.task_id \notin DOMAIN taskRows
      /\ LET r == ImplementationRepositoryCreate(implRows, taskRows, impl)
         IN  RepoCommit(taskRows, locationRows, r.rows, clock,
                        RepoCall("create", "implementation", r.id, r.err, {},
                                 r.ret))

UpdateImplementationRow ==
    \E id \in 1..(MaxRepoImpls + 1), patch \in ImplPatches :
      LET r == ImplementationRepositoryUpdate(repoKind, implRows, id, patch)
      IN  RepoCommit(taskRows, locationRows, r.rows, clock,
                     RepoCall("update", "implementation", id, r.err, {patch},
                              r.ret))

\* TaskService.getTaskWithDetails over the full rows: findById, then both
\* findByTaskId; the first error is the call's error
TaskWithDetails(t, l, i, id) ==
    LET task == TaskRepositoryFindById(t, id)
        locs == CodeLocationRepositoryFindByTaskId(l, id)
        impls == ImplementationRepositoryFindByTaskId(i, id)
    IN  IF task.err = "null" THEN [err |-> "NotFoundError", ret |-> {}]
        ELSE IF task.err # "ok" THEN [err |-> task.err, ret |-> {}]
        ELSE IF locs.err # "ok"
        THEN [err |-> locs.err, ret |-> {}]
        ELSE IF impls.err # "ok" THEN [err |-> impls.err, ret |-> {}]
        ELSE [err |-> "ok",
              ret |-> {[task |-> t[id],
                        codeLocations |-> locs.ids,
                        implementations |-> impls.ids]}]

ReadTaskWithDetails ==
    \E id \in RepoCallIds :
      LET r == TaskWithDetails(taskRows, locationRows, implRows, id)
      IN  RepoCommit(taskRows, locationRows, implRows, clock,
                     RepoCall("getTaskWithDetails", "task", id, r.err, {},
                              r.ret))

RepoIdle ==
    /\ taskRows = <<>>
    /\ locationRows = <<>>
    /\ implRows = <<>>
    /\ clock = 0
    /\ lastRepo = NoRepoCall

OrchestratorIdle ==
    /\ tasks = <<>>
    /\ codeLocations = <<>>
    /\ implementations = <<>>
    /\ currentBranch = MASTER
    /\ branches = {MASTER}
    /\ merged = {}
    /\ mainBranch = NullBranch
    /\ lastCall = NoCall

\* evicted: the keys the call removed to make room
CacheCall(op, key, result, evicted) ==
    [op |-> op, key |-> key, result |-> result, evicted |-> evicted]

NoCacheCall == CacheCall("none", "none", "null", {})

CacheIdle ==
    /\ cache = <<>>
    /\ accessOrder = <<>>
    /\ cacheNow = 0
    /\ claimed = <<>>
    /\ dropped = {}
    /\ lastCache = NoCacheCall

DbNames == {"global", "own"}

BaseTables == {"tasks", "code_locations", "implementations"}

\* what the statements of `schema` leave in a database
SchemaObjects ==
    BaseTables \cup
        {"idx_code_locations_task_id", "idx_implementations_task_id",
         "idx_tasks_status"}

\* pending: how many migrations the call found pending
MigCall(op, outcome, failedUps, pending) ==
    [op |-> op, outcome |-> outcome, failedUps |-> failedUps,
     pending |-> pending]

NoMigCall == MigCall("none", "ok", {}, 0)

MigIdle ==
    /\ migDbs = [d \in DbNames |-> SchemaObjects]
    /\ migRecords = [d \in DbNames |-> {}]
    /\ svcDb = "global"
    /\ lastMig = NoMigCall

ConcProcs == {1, 2}

ConcOps == {"addCodeLocation", "completeTask", "updateTaskStatus"}

\* one call: old is the status findById returned, seen the branch that was
\* read, arg the status updateTaskStatus writes, fault a merge that ends in a
\* conflict, failed the step the call failed in; stale: the location was
\* written while another branch was checked out; raced: see ConcStart and
\* ConcUpdateTaskStatus
ConcProc(op, id, pc, old, seen, arg, fault, outcome, failed, stale, raced) ==
    [op |-> op, id |-> id, pc |-> pc, old |-> old, seen |-> seen, arg |-> arg,
     fault |-> fault, outcome |-> outcome, failed |-> failed, stale |-> stale,
     raced |-> raced]

IdleProc ==
    ConcProc("none", 0, "idle", "none", "none", "none", FALSE, "none", "none",
             FALSE, FALSE)

ConcIdle == procs = [p \in ConcProcs |-> IdleProc]

GitIdle ==
    /\ inProgress = "none"
    /\ lastGit = NoGitCall

RepoInit ==
    /\ repoKind \in RepoKinds
    /\ RepoIdle
    /\ variant = "direct"
    /\ OrchestratorIdle
    /\ GitIdle
    /\ CacheIdle
    /\ MigIdle
    /\ ConcIdle

RepoNext ==
    \/ CreateTaskRow
    \/ UpdateTaskRow
    \/ DeleteTaskRow
    \/ CreateLocationRow
    \/ UpdateLocationRow
    \/ CreateImplementationRow
    \/ UpdateImplementationRow
    \/ ReadTaskWithDetails

RepoSpec == RepoInit /\ [][RepoNext]_vars

\* ------------------------------------------- branch-service calls on their own
\* MockGitService and RealGitService called directly, with the state a failed
\* git command leaves the working copy in: "none", or in the middle of a
\* "merge" or of a "rebase".
MaxBranchTasks == 2

BranchTaskIds == 1..MaxBranchTasks

\* the task ids a caller may pass: those with a branch, and one without
BranchCallIds == 1..(MaxBranchTasks + 1)

GitStates == {"none", "merge", "rebase"}

\* What the failing command of completeTask can leave in progress: `git
\* pull` (5) stops in a conflicted merge or, with pull.rebase, in a
\* conflicted rebase; `git rebase` (7) in a conflicted rebase; `git merge`
\* (9) in a conflicted merge; the other commands leave what they found.
LeftBy(gf, ip) ==
    IF gf = 5 THEN GitStates
    ELSE IF gf = 7 THEN {"none", "rebase"}
    ELSE IF gf = 9 THEN {"none", "merge"}
    ELSE {ip}

\* rebaseBranch's catch block: `git rebase --abort`, errors ignored
RebaseBranchAbort(gf, ip, abortFails) ==
    IF gf # 7 THEN [ip |-> ip, aborts |-> {}]
    ELSE [ip |-> IF ip = "rebase" /\ ~abortFails THEN "none" ELSE ip,
          aborts |-> {"rebase"}]

\* completeTask's catch block: `git merge --abort` and then `git rebase
\* --abort` inside one try; a failing command (nothing to abort) ends it
CatchAborts(ip, abortFails) ==
    IF ip = "merge" /\ ~abortFails
    THEN [ip |-> "none", aborts |-> {"merge", "rebase"}]
    ELSE [ip |-> ip, aborts |-> {"merge"}]

\* the aborts of one RealGitService.completeTask call that ended with err
CompleteTaskAborts(err, gf, ip, abortFails) ==
    LET rb == RebaseBranchAbort(gf, ip, abortFails)
        ca == CatchAborts(rb.ip, abortFails)
    IN  IF err # "GitError" THEN [ip |-> ip, aborts |-> {}]
        ELSE [ip |-> ca.ip, aborts |-> rb.aborts \cup ca.aborts]

GitCommit(wc, mb, ip, call) ==
    /\ currentBranch' = wc.cur
    /\ branches' = wc.branches
    /\ merged' = wc.merged
    /\ mainBranch' = mb
    /\ inProgress' = ip
    /\ lastGit' = call
    /\ UNCHANGED <<variant, tasks, codeLocations, implementations, lastCall,
                   repoVars, cacheVars, migVars, concVars>>

BranchServiceCreateBranch ==
    \E id \in BranchTaskIds, gf \in 0..2 :
      /\ variant = "mock" => gf = 0
      /\ inProgress # "none" => gf # 0
      /\ LET r == GitCreateBranch(HereWC, mainBranch, id, gf)
         IN  GitCommit(r.wc, r.main, inProgress,
                       GitCall("createBranch", id, r.err, {}))

BranchServiceCompleteTask ==
    \E id \in BranchCallIds, gf \in 0..10, left \in GitStates,
       abortFails \in BOOLEAN :
      /\ variant = "mock" => gf = 0 /\ ~abortFails
      /\ inProgress # "none" => gf \in 1..4
      /\ left \in LeftBy(gf, inProgress)
      /\ LET r == GitCompleteTask(HereWC, mainBranch, id, gf)
             a == IF variant = "mock" THEN [ip |-> inProgress, aborts |-> {}]
                  ELSE CompleteTaskAborts(r.err, gf, left, abortFails)
         IN  GitCommit(r.wc, r.main, a.ip,
                       GitCall("completeTask", id, r.err, a.aborts))

\* the user switches branches in the working copy
BranchCheckout ==
    /\ variant = "real"
    /\ inProgress = "none"
    /\ \E b \in branches \ {currentBranch} :
         GitCommit(WC(b, branches, merged), mainBranch, inProgress,
                   GitCall("checkout", 0, "ok", {}))

\* the user aborts the merge or rebase the working copy was left in
UserAbort ==
    /\ inProgress # "none"
    /\ GitCommit(HereWC, mainBranch, "none", GitCall("abort", 0, "ok", {}))

\* a new RealGitService is constructed over the same working copy (a new
\* TaskService, a restarted process): its main-branch cache is empty
NewGitService ==
    /\ variant = "real"
    /\ mainBranch # NullBranch
    /\ GitCommit(HereWC, NullBranch, inProgress, GitCall("new", 0, "ok", {}))

\* the branch createBranch passes to `git checkout -b <name> <start>`
StartPoint(mb, wc) == GetMainBranch(mb, wc, FALSE).main

GitInit ==
    /\ variant \in {"mock", "real"}
    /\ OrchestratorIdle
    /\ repoKind = "byTaskId"
    /\ RepoIdle
    /\ GitIdle
    /\ CacheIdle
    /\ MigIdle
    /\ ConcIdle

GitNext ==
    \/ BranchServiceCreateBranch
    \/ BranchServiceCompleteTask
    \/ BranchCheckout
    \/ UserAbort
    \/ NewGitService

GitSpec == GitInit /\ [][GitNext]_vars

\* ===================================================== the report cache
\* services/CacheService.ts: a map of entries with an expiry time and the
\* list accessOrder, which set and get keep ordered by last use (the key
\* used last comes first).  Time is Date.now(); it passes between calls.
MaxEntries == 2
MaxTime == 3
DefaultTTL == 2

CacheKeys == {"a", "b", "c"}
CacheValues == {"v"}

\* the ttl argument: {} when it is not given
TTLs == {{}, {0}, {1}}

\* evictExpired: drops the entries with now > expiresAt
EvictExpired(c, order, now) ==
    LET live == {k \in DOMAIN c : ~(now > c[k].expiresAt)}
    IN  [cache |-> [k \in live |-> c[k]],
         order |-> SelectSeq(order, LAMBDA k : k \in live)]

\* `ttl || this.config.defaultTTL`
EffectiveTTL(ttl) ==
    IF ttl = {} \/ ttl = {0} THEN DefaultTTL ELSE CHOOSE t \in ttl : TRUE

\* the ttl the caller asked for: the one given, the default when none is
GivenTTL(ttl) == IF ttl = {} THEN DefaultTTL ELSE CHOOSE t \in ttl : TRUE

\* [key, ...accessOrder.filter(k => k !== key)]
Touch(order, key) == <<key>> \o SelectSeq(order, LAMBDA k : k # key)

\* a set that never removes an entry to make room
DoCacheSetNoEvict(c, order, key, value, ttl, now) ==
    LET e == EvictExpired(c, order, now)
        entry == [data |-> value, expiresAt |-> now + EffectiveTTL(ttl)]
    IN  [cache |-> (key :> entry) @@ e.cache,
         order |-> Touch(e.order, key),
         evicted |-> {}]

\* set(key, value, ttl) at time now: [cache, order, evicted]
DoCacheSet(c, order, key, value, ttl, now) ==
    LET e == EvictExpired(c, order, now)
        full == Cardinality(DOMAIN e.cache) >= MaxEntries
        oldestKey == e.order[1]
        c1 == IF full THEN [k \in DOMAIN e.cache \ {oldestKey} |-> e.cache[k]]
              ELSE e.cache
        o1 == IF full THEN Tail(e.order) ELSE e.order
        entry == [data |-> value, expiresAt |-> now + EffectiveTTL(ttl)]
    IN  [cache |-> (key :> entry) @@ c1,
         order |-> Touch(o1, key),
         evicted |-> IF full THEN {oldestKey} ELSE {}]

\* get(key) at time now: [cache, order, result]
DoCacheGet(c, order, key, now) ==
    LET e == EvictExpired(c, order, now)
    IN  IF key \notin DOMAIN e.cache \/ now > e.cache[key].expiresAt
        THEN [cache |-> e.cache, order |-> e.order, result |-> "null"]
        ELSE [cache |-> e.cache, order |-> Touch(e.order, key),
              result |-> e.cache[key].data]

CacheCommit(c, order, now, cl, dr, call) ==
    /\ cache' = c
    /\ accessOrder' = order
    /\ cacheNow' = now
    /\ claimed' = cl
    /\ dropped' = dr
    /\ lastCache' = call
    /\ UNCHANGED <<variant, tasks, codeLocations, implementations,
                   currentBranch, branches, merged, mainBranch, lastCall,
                   repoVars, gitVars, migVars, concVars>>

CacheSet ==
    \E key \in CacheKeys, value \in CacheValues, ttl \in TTLs :
      LET r == DoCacheSet(cache, accessOrder, key, value, ttl, cacheNow)
      IN  CacheCommit(r.cache, r.order, cacheNow,
                      (key :> [data |-> value, ttl |-> GivenTTL(ttl),
                               expiresAt |-> cacheNow + GivenTTL(ttl)])
                          @@ claimed,
                      (dropped \cup r.evicted) \ {key},
                      CacheCall("set", key, "null", r.evicted))

CacheGet ==
    \E key \in CacheKeys :
      LET r == DoCacheGet(cache, accessOrder, key, cacheNow)
      IN  CacheCommit(r.cache, r.order, cacheNow, claimed, dropped,
                      CacheCall("get", key, r.result, {}))

CacheClear ==
    CacheCommit(<<>>, <<>>, cacheNow, claimed, dropped \cup DOMAIN cache,
                CacheCall("clear", "none", "null", {}))

\* time passes
CacheTick ==
    /\ cacheNow < MaxTime
    /\ CacheCommit(cache, accessOrder, cacheNow + 1, claimed, dropped,
                   CacheCall("tick", "none", "null", {}))

CacheInit ==
    /\ variant = "direct"
    /\ OrchestratorIdle
    /\ repoKind = "byTaskId"
    /\ RepoIdle
    /\ GitIdle
    /\ CacheIdle
    /\ MigIdle
    /\ ConcIdle

CacheNext ==
    \/ CacheSet
    \/ CacheGet
    \/ CacheClear
    \/ CacheTick

CacheSpec == CacheInit /\ [][CacheNext]_vars

\* ===================================================== schema migrations
\* database/migrations.ts (MigrationService), database/indexService.ts and
\* database/schema.ts.  A database is the set of the names of its tables and
\* indexes plus the ids recorded in its migrations table.  The service works
\* on the database its constructor was given ("own") or on the one
\* getDatabase() returns ("global"); the indexService singleton always works
\* on the global one.
Migrations == <<1, 2, 3, 4>>

MigrationIds == {Migrations[i] : i \in DOMAIN Migrations}

\* the table every index is made on
IndexTable ==
    [idx_code_locations_task_id |-> "code_locations",
     idx_implementations_task_id |-> "implementations",
     idx_tasks_status |-> "tasks",
     task_status_idx |-> "tasks",
     task_created_idx |-> "tasks",
     codeloc_task_idx |-> "code_locations",
     impl_task_idx |-> "implementations",
     impl_pattern_success_idx |-> "implementations",
     impl_task_time_idx |-> "implementations",
     task_status_complexity_idx |-> "tasks",
     audit_timestamp_idx |-> "audit_logs",
     audit_action_idx |-> "audit_logs",
     audit_severity_idx |-> "audit_logs",
     audit_user_idx |-> "audit_logs",
     audit_severity_time_idx |-> "audit_logs",
     audit_user_time_idx |-> "audit_logs"]

\* one statement: through `db` (the service's database) or the indexService
CreateTable(t) == [op |-> "createTable", via |-> "db", name |-> t]

CreateIndex(n) == [op |-> "createIndex", via |-> "indexService", name |-> n]

DropIndex(n) == [op |-> "dropIndex", via |-> "db", name |-> n]

DropTable(t) == [op |-> "dropTable", via |-> "db", name |-> t]

\* the up functions of the four migrations
UpSteps(m) ==
    CASE m = 1 -> <<CreateTable("tasks"), CreateTable("code_locations"),
                    CreateTable("implementations")>>
      [] m = 2 -> <<CreateIndex("task_status_idx"),
                    CreateIndex("task_created_idx"),
                    CreateIndex("codeloc_task_idx"),
                    CreateIndex("impl_task_idx")>>
      [] m = 3 -> <<CreateIndex("impl_pattern_success_idx"),
                    CreateIndex("impl_task_time_idx"),
                    CreateIndex("task_status_complexity_idx")>>
      [] m = 4 -> <<CreateTable("audit_logs"),
                    CreateIndex("audit_timestamp_idx"),
                    CreateIndex("audit_action_idx"),
                    CreateIndex("audit_severity_idx"),
                    CreateIndex("audit_user_idx"),
                    CreateIndex("audit_severity_time_idx"),
                    CreateIndex("audit_user_time_idx")>>

\* the down functions
DownSteps(m) ==
    CASE m = 1 -> <<DropTable("implementations"), DropTable("code_locations"),
                    DropTable("tasks")>>
      [] m = 2 -> <<DropIndex("task_status_idx"),
                    DropIndex("task_created_idx"),
                    DropIndex("codeloc_task_idx"),
                    DropIndex("impl_task_idx")>>
      [] m = 3 -> <<DropIndex("impl_pattern_success_idx"),
                    DropIndex("impl_task_time_idx"),
                    DropIndex("task_status_complexity_idx")>>
      [] m = 4 -> <<DropIndex("audit_timestamp_idx"),
                    DropIndex("audit_action_idx"),
                    DropIndex("audit_severity_idx"),
                    DropIndex("audit_user_idx"),
                    DropIndex("audit_severity_time_idx"),
                    DropIndex("audit_user_time_idx"),
                    DropTable("audit_logs")>>

\* up and down of migrations 2 and 3 are `async` functions
IsAsync(m) == m \in {2, 3}

\* one statement on the objects of a database: [objs, failed].  CREATE ...
\* IF NOT EXISTS and DROP ... IF EXISTS do nothing when there is nothing to
\* do; CREATE INDEX fails when its table is missing; DROP TABLE takes the
\* table's indexes with it.
ExecStatement(st, objs) ==
    CASE st.op = "createTable" ->
             [objs |-> objs \cup {st.name}, failed |-> FALSE]
      [] st.op = "createIndex" ->
             IF st.name \in objs THEN [objs |-> objs, failed |-> FALSE]
             ELSE IF IndexTable[st.name] \notin objs
                  THEN [objs |-> objs, failed |-> TRUE]
                  ELSE [objs |-> objs \cup {st.name}, failed |-> FALSE]
      [] st.op = "dropIndex" ->
             [objs |-> objs \ {st.name}, failed |-> FALSE]
      [] st.op = "dropTable" ->
             [objs |-> {o \in objs :
                          /\ o # st.name
                          /\ o \in DOMAIN IndexTable => IndexTable[o] # st.name},
              failed |-> FALSE]

\* the statements of an up or down function, in order, until one throws:
\* [dbs, failed]; svc is the database of the service
RECURSIVE RunSteps(_, _, _)
RunSteps(steps, dbs, svc) ==
    IF steps = <<>> THEN [dbs |-> dbs, failed |-> FALSE]
    ELSE LET st == Head(steps)
             target == IF st.via = "db" THEN svc ELSE "global"
             r == ExecStatement(st, dbs[target])
             dbs1 == [dbs EXCEPT ![target] = r.objs]
         IN  IF r.failed THEN [dbs |-> dbs1, failed |-> TRUE]
             ELSE RunSteps(Tail(steps), dbs1, svc)

\* getAppliedMigrations: SELECT id FROM migrations ORDER BY id
RECURSIVE GetAppliedMigrations(_)
GetAppliedMigrations(recs) ==
    IF recs = {} THEN <<>>
    ELSE LET least == CHOOSE i \in recs : \A j \in recs : i <= j
         IN  <<least>> \o GetAppliedMigrations(recs \ {least})

\* a filter that keeps every migration, applied or not
PendingAll(applied) == Migrations

\* migrations.filter(m => !applied.includes(m.id))
Pending(applied) ==
    SelectSeq(Migrations,
              LAMBDA m : \A i \in DOMAIN applied : applied[i] # m)

\* the first element of the applied list
LastAppliedFirst(applied) == applied[1]

\* applied[applied.length - 1]
LastApplied(applied) == applied[Len(applied)]

\* applyMigration: up is called without await, so what an async up throws is
\* lost; then the INSERT, which fails on an id that is already recorded.
\* [dbs, recs, threw, upFailed]
ApplyMigration(m, dbs, recs, svc) ==
    LET u == RunSteps(UpSteps(m), dbs, svc)
    IN  IF u.failed /\ ~IsAsync(m)
        THEN [dbs |-> u.dbs, recs |-> recs, threw |-> TRUE, upFailed |-> TRUE]
        ELSE IF m \in recs[svc]
             THEN [dbs |-> u.dbs, recs |-> recs, threw |-> TRUE,
                   upFailed |-> u.failed]
             ELSE [dbs |-> u.dbs, recs |-> [recs EXCEPT ![svc] = @ \cup {m}],
                   threw |-> FALSE, upFailed |-> u.failed]

\* the loop of applyMigrations over the pending migrations:
\* [dbs, recs, outcome, failedUps]
RECURSIVE ApplyAll(_, _, _, _, _)
ApplyAll(pending, dbs, recs, svc, failedUps) ==
    IF pending = <<>>
    THEN [dbs |-> dbs, recs |-> recs, outcome |-> "ok", failedUps |-> failedUps]
    ELSE LET m == Head(pending)
             r == ApplyMigration(m, dbs, recs, svc)
             f == IF r.upFailed THEN failedUps \cup {m} ELSE failedUps
         IN  IF r.threw
             THEN [dbs |-> r.dbs, recs |-> r.recs, outcome |-> "rejected",
                   failedUps |-> f]
             ELSE ApplyAll(Tail(pending), r.dbs, r.recs, svc, f)

\* rollback: down is called without await, then the DELETE
Rollback(m, dbs, recs, svc) ==
    LET d == RunSteps(DownSteps(m), dbs, svc)
    IN  IF d.failed /\ ~IsAsync(m)
        THEN [dbs |-> d.dbs, recs |-> recs, outcome |-> "rejected"]
        ELSE [dbs |-> d.dbs, recs |-> [recs EXCEPT ![svc] = @ \ {m}],
              outcome |-> "ok"]

\* rollbackAll: the applied migrations from the highest id down
RECURSIVE RollbackEach(_, _, _, _)
RollbackEach(ids, dbs, recs, svc) ==
    IF ids = {} THEN [dbs |-> dbs, recs |-> recs, outcome |-> "ok"]
    ELSE LET m == CHOOSE i \in ids : \A j \in ids : i >= j
             r == Rollback(m, dbs, recs, svc)
         IN  IF r.outcome # "ok" THEN r
             ELSE RollbackEach(ids \ {m}, r.dbs, r.recs, svc)

MigCommit(dbs, recs, svc, call) ==
    /\ migDbs' = dbs
    /\ migRecords' = recs
    /\ svcDb' = svc
    /\ lastMig' = call
    /\ UNCHANGED <<variant, tasks, codeLocations, implementations,
                   currentBranch, branches, merged, mainBranch, lastCall,
                   repoVars, gitVars, cacheVars, concVars>>

\* new MigrationService(db?)
NewMigrationService ==
    \E svc \in DbNames :
        MigCommit(migDbs, migRecords, svc, MigCall("new", "ok", {}, 0))

ApplyMigrations ==
    LET applied == GetAppliedMigrations(migRecords[svcDb])
        r == ApplyAll(Pending(applied), migDbs, migRecords, svcDb, {})
    IN  MigCommit(r.dbs, r.recs, svcDb,
                  MigCall("applyMigrations", r.outcome, r.failedUps,
                          Len(Pending(applied))))

RollbackMigration ==
    LET applied == GetAppliedMigrations(migRecords[svcDb])
    IN  IF Len(applied) = 0
        THEN MigCommit(migDbs, migRecords, svcDb,
                       MigCall("rollbackMigration", "ok", {}, 0))
        ELSE LET r == Rollback(LastApplied(applied), migDbs, migRecords, svcDb)
             IN  MigCommit(r.dbs, r.recs, svcDb,
                           MigCall("rollbackMigration", r.outcome, {}, 0))

RollbackAll ==
    LET r == RollbackEach(migRecords[svcDb] \cap MigrationIds, migDbs,
                          migRecords, svcDb)
    IN  MigCommit(r.dbs, r.recs, svcDb, MigCall("rollbackAll", r.outcome, {}, 0))

\* the tables dropped by hand
DroppedByHand == {"implementations", "tasks"}

\* someone drops a table of the service's database by hand
ExternalDropTable ==
    \E t \in DroppedByHand :
        /\ t \in migDbs[svcDb]
        /\ MigCommit([migDbs EXCEPT ![svcDb] =
                          ExecStatement(DropTable(t), @).objs],
                     migRecords, svcDb, MigCall("dropTable", "ok", {}, 0))

MigInit ==
    /\ variant = "direct"
    /\ OrchestratorIdle
    /\ repoKind = "byTaskId"
    /\ RepoIdle
    /\ GitIdle
    /\ CacheIdle
    /\ MigIdle
    /\ ConcIdle

MigNext ==
    \/ NewMigrationService
    \/ ApplyMigrations
    \/ RollbackMigration
    \/ RollbackAll
    \/ ExternalDropTable

MigSpec == MigInit /\ [][MigNext]_vars

\* ------------------------------------------------------------ specification
Init ==
    /\ variant \in Variants
    /\ tasks = <<>>
    /\ codeLocations = <<>>
    /\ implementations = <<>>
    /\ currentBranch = MASTER
    /\ branches = {MASTER}
    /\ merged = {}
    /\ mainBranch = NullBranch
    /\ lastCall = NoCall
    /\ repoKind = "byTaskId"
    /\ RepoIdle
    /\ GitIdle
    /\ CacheIdle
    /\ MigIdle
    /\ ConcIdle

Next ==
    \/ CreateTask
    \/ AddCodeLocation
    \/ RecordImplementation
    \/ GetTaskWithDetails
    \/ UpdateTaskStatus
    \/ CompleteTask
    \/ ExternalCheckout
    \/ GitServiceCreateBranch
    \/ GitServiceCleanupBranch
    \/ NewTaskService

Spec == Init /\ [][Next]_vars

\* =============================================== concurrent orchestrator calls
\* Two calls of the orchestrator in flight at once.  A call gives the event
\* loop to other calls at each `await`, so each awaited repository or git
\* call is one step; what the call computes between two awaits belongs to
\* the step that follows.  A gitService call of services/AuditService.ts is
\* one step.  The task is created first, by a createTask that ran alone.
Running(pr) == pr.pc \notin {"idle", "done"}

Done(pr, outcome, failed) ==
    [pr EXCEPT !.pc = "done", !.outcome = outcome, !.failed = failed]

ConcCommit(t, l, wc, mb, ps) ==
    /\ tasks' = t
    /\ codeLocations' = l
    /\ currentBranch' = wc.cur
    /\ branches' = wc.branches
    /\ merged' = wc.merged
    /\ mainBranch' = mb
    /\ procs' = ps
    /\ UNCHANGED <<variant, implementations, lastCall, repoVars, gitVars,
                   cacheVars, migVars>>

\* createTask, run alone before the concurrent calls
ConcCreateTask ==
    /\ tasks = <<>>
    /\ CreateTask
    /\ lastCall'.outcome = "ok"

\* the first step of each operation after findById
FirstStep(op) ==
    CASE op = "addCodeLocation" -> "branchRead"
      [] op = "completeTask" ->
             IF variant = "direct" THEN "mainBranch" ELSE "gitComplete"
      [] op = "updateTaskStatus" -> "statusWrite"

\* A call starts: `await this.taskRepo.findById(taskId)`.  raced: a
\* completeTask that starts while another completeTask of the task is in
\* flight and the task's branch exists.
ConcStart ==
    \E p \in ConcProcs, op \in ConcOps, id \in DOMAIN tasks,
       arg \in TaskStatus, fault \in BOOLEAN :
        /\ procs[p].pc = "idle"
        /\ op # "updateTaskStatus" => arg = CREATED
        /\ fault => op = "completeTask" /\ variant # "mock"
        /\ LET found == TaskRepoFindById(tasks, id)
               raced == /\ op = "completeTask"
                        /\ TaskBranch(id) \in branches
                        /\ \E q \in ConcProcs \ {p} :
                               /\ Running(procs[q])
                               /\ procs[q].op = "completeTask"
                               /\ procs[q].id = id
               pr == ConcProc(op, id, FirstStep(op), tasks[id].status, "none",
                              IF op = "updateTaskStatus" THEN arg ELSE "none",
                              fault, "none", "none", FALSE, raced)
           IN  ConcCommit(tasks, codeLocations, HereWC, mainBranch,
                          [procs EXCEPT ![p] =
                              IF found = "ok" THEN pr
                              ELSE Done(pr, FindOutcome(found), "find")])

\* the branch the guard of addCodeLocation looks at: the one a fresh read
\* would return
BranchCheckedFresh(seen, cur) == cur

\* the branch the guard of addCodeLocation looks at: the one that was read
\* before the await
BranchChecked(seen, cur) == seen

\* addCodeLocation: the read of the current branch (rev-parse, or
\* gitService.getCurrentBranch), then the guard and codeLocationRepo.create
\* (in services/TaskService.ts after one more rev-parse, for the commit)
ConcAddCodeLocation ==
    \E p \in ConcProcs :
      LET pr == procs[p]
          id == pr.id
          lc == CodeLocationRepoCreate(
                    codeLocations, tasks,
                    NewLocation(id, [start_line |-> MinLine, end_line |-> "num"],
                                IF variant = "direct" THEN "hash"
                                ELSE "undefined"),
                    FALSE)
      IN  /\ pr.op = "addCodeLocation"
          /\ \/ /\ pr.pc = "branchRead"
                /\ ConcCommit(tasks, codeLocations, HereWC, mainBranch,
                              [procs EXCEPT ![p] =
                                  [pr EXCEPT !.pc = "locationWrite",
                                             !.seen = currentBranch]])
             \/ /\ pr.pc = "locationWrite"
                /\ IF ~OnTaskBranch(BranchChecked(pr.seen, currentBranch), id)
                   THEN ConcCommit(tasks, codeLocations, HereWC, mainBranch,
                                   [procs EXCEPT ![p] =
                                       Done(pr, "GitError", "precondition")])
                   ELSE IF lc.err # "ok"
                   THEN ConcCommit(tasks, codeLocations, HereWC, mainBranch,
                                   [procs EXCEPT ![p] =
                                       Done(pr, lc.err, "locationWrite")])
                   ELSE ConcCommit(tasks, lc.locs, HereWC, mainBranch,
                                   [procs EXCEPT ![p] =
                                       [Done(pr, "ok", "none") EXCEPT
                                           !.stale = ~OnTaskBranch(currentBranch, id)]])

\* updateTaskStatus: the UPDATE.  raced: it is written while a
\* completeTask of the task is between its findById and its last write.
ConcUpdateTaskStatus ==
    \E p \in ConcProcs :
      LET pr == procs[p]
          u == TaskRepoUpdate(tasks, pr.id, pr.arg, FALSE)
          raced == \E q \in ConcProcs \ {p} :
                       /\ Running(procs[q])
                       /\ procs[q].op = "completeTask"
                       /\ procs[q].id = pr.id
      IN  /\ pr.op = "updateTaskStatus"
          /\ pr.pc = "statusWrite"
          /\ ConcCommit(u.tasks, codeLocations, HereWC, mainBranch,
                        [procs EXCEPT ![p] =
                            [Done(pr, u.err,
                                  IF u.err = "ok" THEN "none" ELSE "statusWrite")
                             EXCEPT !.raced = raced]])

\* services/TaskService.ts completeTask, one awaited call per step
ConcDirectCompleteTask ==
    \E p \in ConcProcs :
      LET pr == procs[p]
          id == pr.id
          b == TaskBranch(id)
          Go(t, wc, mb, next) ==
              ConcCommit(t, codeLocations, wc, mb,
                         [procs EXCEPT ![p] = [pr EXCEPT !.pc = next]])
          End(t, wc, outcome, failed) ==
              ConcCommit(t, codeLocations, wc, mainBranch,
                         [procs EXCEPT ![p] = Done(pr, outcome, failed)])
      IN  /\ pr.op = "completeTask"
          /\ variant = "direct"
          /\ CASE pr.pc = "mainBranch" ->
                    Go(tasks, HereWC, GetMainBranch(mainBranch, HereWC, FALSE).main,
                       "writeCompleted")
               [] pr.pc = "writeCompleted" ->
                    LET u == TaskRepoUpdate(tasks, id, COMPLETED, FALSE)
                    IN  IF u.err # "ok" THEN End(tasks, HereWC, u.err, "statusWrite")
                        ELSE Go(u.tasks, HereWC, mainBranch, "branchExists")
               [] pr.pc = "branchExists" ->
                    IF ~DoesBranchExist(HereWC, b, FALSE)
                    THEN End(tasks, HereWC, "ok", "noBranch")
                    ELSE Go(tasks, HereWC, mainBranch, "currentRead")
               [] pr.pc = "currentRead" ->
                    ConcCommit(tasks, codeLocations, HereWC, mainBranch,
                               [procs EXCEPT ![p] =
                                   [pr EXCEPT !.seen = currentBranch,
                                              !.pc = IF currentBranch # mainBranch
                                                     THEN "checkout" ELSE "merge"]])
               [] pr.pc = "checkout" ->
                    LET co == GitCheckout(HereWC, mainBranch, FALSE)
                    IN  Go(tasks, co.wc, mainBranch,
                           IF co.ok THEN "merge" ELSE "abort")
               [] pr.pc = "merge" ->
                    LET mg == GitMerge(HereWC, b, pr.fault)
                    IN  Go(tasks, mg.wc, mainBranch,
                           IF mg.ok THEN "delete" ELSE "abort")
               [] pr.pc = "delete" ->
                    LET dl == GitDeleteLocalBranch(HereWC, b, FALSE, FALSE)
                    IN  IF dl.ok THEN End(tasks, dl.wc, "ok", "none")
                        ELSE Go(tasks, HereWC, mainBranch, "abort")
               [] pr.pc = "abort" ->
                    Go(tasks, HereWC, mainBranch, "revert")
               [] pr.pc = "revert" ->
                    LET u == TaskRepoUpdate(tasks, id, RevertStatus(pr.old), FALSE)
                    IN  End(u.tasks, HereWC,
                            IF u.err # "ok" THEN u.err ELSE "GitError", "branch")
               [] OTHER -> FALSE

\* services/AuditService.ts TaskService.completeTask: the branch step,
\* the write of COMPLETED, and in the catch block the write of the status
\* read on entry
ConcServiceCompleteTask ==
    \E p \in ConcProcs :
      LET pr == procs[p]
          id == pr.id
          Go(t, wc, mb, next, failed) ==
              ConcCommit(t, codeLocations, wc, mb,
                         [procs EXCEPT ![p] =
                             [pr EXCEPT !.pc = next, !.failed = failed]])
      IN  /\ pr.op = "completeTask"
          /\ variant # "direct"
          /\ CASE pr.pc = "gitComplete" ->
                    LET gc == GitCompleteTask(HereWC, mainBranch, id,
                                              IF pr.fault THEN 9 ELSE 0)
                    IN  IF gc.err = "ok"
                        THEN Go(tasks, gc.wc, gc.main, "writeCompleted", "none")
                        ELSE Go(tasks, gc.wc, gc.main, "revert", "branch")
               [] pr.pc = "writeCompleted" ->
                    LET u == TaskRepoUpdate(tasks, id, COMPLETED, FALSE)
                    IN  IF u.err = "ok"
                        THEN ConcCommit(u.tasks, codeLocations, HereWC, mainBranch,
                                        [procs EXCEPT ![p] = Done(pr, "ok", "none")])
                        ELSE Go(tasks, HereWC, mainBranch, "revert", "statusWrite")
               [] pr.pc = "revert" ->
                    LET u == TaskRepoUpdate(tasks, id, RevertStatus(pr.old), FALSE)
                    IN  ConcCommit(u.tasks, codeLocations, HereWC, mainBranch,
                                   [procs EXCEPT ![p] =
                                       Done(pr,
                                            IF u.err # "ok" THEN u.err
                                            ELSE "GitError",
                                            pr.failed)])
               [] OTHER -> FALSE

ConcNext ==
    \/ ConcCreateTask
    \/ ConcStart
    \/ ConcAddCodeLocation
    \/ ConcUpdateTaskStatus
    \/ ConcDirectCompleteTask
    \/ ConcServiceCompleteTask

ConcSpec == Init /\ [][ConcNext]_vars

\* the orchestrator operations alone, one after the other, on a branch
\* service none of whose commands fails (SQL statements may still fail)
BranchSteps == {"branch", "branchRead", "branchList"}

BranchServiceOk == lastCall'.failedStep \notin BranchSteps

SeqNext ==
    \/ CreateTask /\ BranchServiceOk
    \/ AddCodeLocation /\ BranchServiceOk
    \/ RecordImplementation /\ BranchServiceOk
    \/ GetTaskWithDetails /\ BranchServiceOk
    \/ UpdateTaskStatus /\ BranchServiceOk
    \/ CompleteTask /\ BranchServiceOk

SeqSpec == Init /\ [][SeqNext]_vars

TypeOK ==
    /\ variant \in Variants
    /\ DOMAIN tasks \subseteq TaskIds
    /\ currentBranch \in branches
    /\ MASTER \in branches

\* ------------------------------------------------------------------ claims
\* the task the last call was about, when it names a row
LastTask == lastCall.id

BranchErrors == {"GitError", "Error"}

C2_CompletionAtomic ==
    [][(/\ lastCall'.op = "completeTask"
        /\ lastCall'.id \in DOMAIN tasks)
       => LET id == lastCall'.id
              b == TaskBranch(id)
          IN  \/ /\ tasks'[id].status = COMPLETED
                 /\ b \notin branches'
                 /\ \E q \in merged' : q[1] = b
              \/ /\ tasks'[id].status = tasks[id].status
                 /\ (b \in branches') = (b \in branches)
                 /\ merged' = merged]_vars

\* C3: for an existing task T and valid location fields, addCodeLocation
\* succeeds exactly when the current branch is task/<T>; on another
\* branch it fails with GitError and persists no CodeLocation row.  (Calls
\* with invalid fields or an injected git or storage failure are left out.)
C3_BranchGuard ==
    [][(/\ lastCall'.op = "addCodeLocation"
        /\ lastCall'.id \in DOMAIN tasks
        /\ lastCall'.failedStep \notin {"branchRead", "locationWrite"})
       => /\ (lastCall'.outcome = "ok") = OnTaskBranch(currentBranch, lastCall'.id)
          /\ ~OnTaskBranch(currentBranch, lastCall'.id)
                => /\ lastCall'.outcome = "GitError"
                   /\ codeLocations' = codeLocations]_vars

\* C4: a createTask that returns successfully has persisted the task with
\* status CREATED, and branch task/<id> exists right afterwards.
C4_CreatedWithBranch ==
    (lastCall.op = "createTask" /\ lastCall.outcome = "ok")
    => /\ LastTask \in DOMAIN tasks
       /\ tasks[LastTask].status = CREATED
       /\ TaskBranch(LastTask) \in branches

\* a successful createTask that left its branch checked out
C4_Witness ==
    /\ lastCall.op = "createTask"
    /\ lastCall.outcome = "ok"
    /\ LastTask \in DOMAIN tasks
    /\ currentBranch = TaskBranch(LastTask)
    /\ TaskBranch(LastTask) \in branches

\* C5: a completeTask(T) that follows a successful completeTask(T) fails
\* with a not-found error or an already-completed signal; it never
\* returns success.
C5_SecondCompleteFails ==
    [][(/\ lastCall.op = "completeTask"
        /\ lastCall.outcome = "ok"
        /\ lastCall'.op = "completeTask"
        /\ lastCall'.id = lastCall.id)
       => lastCall'.outcome \in {"NotFoundError", "AlreadyCompletedError"}]_vars

\* C6: after createTask followed by a successful completeTask of the new
\* task, the task is COMPLETED, the default branch is checked out and
\* task/<id> is gone.
C6_ScenarioD ==
    [][(/\ lastCall.op = "createTask"
        /\ lastCall.outcome = "ok"
        /\ lastCall'.op = "completeTask"
        /\ lastCall'.id = lastCall.id
        /\ lastCall'.outcome = "ok")
       => /\ tasks'[lastCall'.id].status = COMPLETED
          /\ currentBranch' = MASTER
          /\ TaskBranch(lastCall'.id) \notin branches']_vars

\* C7: when the branch step of createTask fails after the Task row was
\* written, the caller gets the branch error, the cleanup of task/<id> was
\* attempted (and its failure ignored), and the row is still stored with
\* status CREATED.
C7_BranchFailureKeepsRow ==
    (lastCall.op = "createTask" /\ lastCall.failedStep = "branch")
    => /\ lastCall.outcome = "GitError"
       /\ lastCall.cleanup \in {"ok", "failed"}
       /\ LastTask \in DOMAIN tasks
       /\ tasks[LastTask].status = CREATED

\* a createTask whose branch step and whose cleanup both failed
C7_Witness ==
    /\ lastCall.op = "createTask"
    /\ lastCall.failedStep = "branch"
    /\ lastCall.outcome = "GitError"
    /\ lastCall.cleanup = "failed"
    /\ LastTask \in DOMAIN tasks
    /\ TaskBranch(LastTask) \notin branches

\* C8: when persisting the initial code location of createTask fails, the
\* operation is compensated: no new Task row and no branch task/<id>
\* remain, and the current branch is what it was before the call.
C8_LocationFailureCompensated ==
    [][(lastCall'.op = "createTask" /\ lastCall'.failedStep = "locationWrite")
       => /\ tasks' = tasks
          /\ branches' = branches
          /\ currentBranch' = currentBranch]_vars

\* C9: when the Task-row write of createTask fails, no branch operation is
\* performed: the branches and the current branch are as before the call.
C9_NoBranchOpOnWriteFailure ==
    [][(lastCall'.op = "createTask" /\ lastCall'.failedStep = "taskWrite")
       => /\ branches' = branches
          /\ currentBranch' = currentBranch]_vars

\* a createTask whose row write failed while a task branch was checked out
C9_Witness ==
    /\ lastCall.op = "createTask"
    /\ lastCall.failedStep = "taskWrite"
    /\ lastCall.outcome \in {"ValidationError", "DatabaseError"}
    /\ currentBranch # MASTER

\* the orchestrator operations that take a task id
IdOps == {"updateTaskStatus", "addCodeLocation", "recordImplementation",
          "getTaskWithDetails", "completeTask"}

\* C10: an operation that takes a task id fails with NotFoundError when no
\* Task row has that id, and leaves the stored rows, the branch set and
\* the current branch unchanged.
C10_NotFound ==
    [][(lastCall'.op \in IdOps /\ lastCall'.id \notin DOMAIN tasks)
       => /\ lastCall'.outcome = "NotFoundError"
          /\ tasks' = tasks
          /\ codeLocations' = codeLocations
          /\ implementations' = implementations
          /\ branches' = branches
          /\ currentBranch' = currentBranch]_vars

\* a completeTask of an unknown id while a row and its branch exist
C10_Witness ==
    /\ lastCall.op = "completeTask"
    /\ lastCall.id \notin DOMAIN tasks
    /\ lastCall.outcome = "NotFoundError"
    /\ tasks # <<>>
    /\ branches # {MASTER}

\* ------------------------------------------- claims about the repositories
\* C11: getTaskWithDetails(id) fails with NotFoundError for every id that
\* names no Task row, and for an existing id succeeds and returns the task
\* with exactly the CodeLocation rows and exactly the Implementation rows
\* whose task_id is id.
C11_DetailsExact ==
    lastRepo.op = "getTaskWithDetails" =>
        IF lastRepo.id \notin DOMAIN taskRows
        THEN lastRepo.outcome = "NotFoundError"
        ELSE /\ lastRepo.outcome = "ok"
             /\ lastRepo.ret =
                  {[task |-> taskRows[lastRepo.id],
                    codeLocations |->
                        {i \in DOMAIN locationRows :
                            locationRows[i].task_id = lastRepo.id},
                    implementations |->
                        {i \in DOMAIN implRows :
                            implRows[i].task_id = lastRepo.id}]}

\* C12: every persisted Task row has priority and complexity in 1..5, a
\* status among created, in_progress, paused, completed, and an updated
\* timestamp that is not before its created timestamp.
C12_TaskRowInvariant ==
    \A id \in DOMAIN taskRows :
        /\ taskRows[id].priority \in MinPriority..MaxPriority
        /\ taskRows[id].complexity \in MinPriority..MaxPriority
        /\ taskRows[id].status \in TaskStatus
        /\ taskRows[id].updated_at >= taskRows[id].created_at

\* a row that was created, then updated at a later time
C12_Witness ==
    /\ lastRepo.op = "update"
    /\ lastRepo.entity = "task"
    /\ lastRepo.outcome = "ok"
    /\ lastRepo.id \in DOMAIN taskRows
    /\ taskRows[lastRepo.id].updated_at > taskRows[lastRepo.id].created_at
    /\ taskRows[lastRepo.id].priority = MaxPriority

\* the table a repository call was about, before and after the call
RowsOf(entity, t, l, i) ==
    IF entity = "task" THEN t ELSE IF entity = "location" THEN l ELSE i

\* the patch of the last update call
LastPatch(call) == CHOOSE p \in call.patch : TRUE

\* update found its row and the merged entity fails the schema
MergedInvalid(call, kind, t, l, i) ==
    /\ call.op = "update"
    /\ \/ /\ call.entity = "task"
          /\ TaskRepositoryFindById(t, call.id).err = "ok"
          /\ ~TaskSchemaOK(Merge(t[call.id], LastPatch(call)))
       \/ /\ call.entity = "location"
          /\ FindExistingLocation(kind, l, call.id, LastPatch(call)) = "ok"
          /\ ~CodeLocationSchemaOK(Merge(l[call.id], LastPatch(call)))
       \/ /\ call.entity = "implementation"
          /\ FindExistingImpl(kind, i, call.id, LastPatch(call)) = "ok"
          /\ ~ImplementationSchemaOK(Merge(i[call.id], LastPatch(call)))

ReadRow(entity, rows, id) ==
    IF id \notin DOMAIN rows THEN {}
    ELSE IF entity = "task"
    THEN TaskRepositoryFindById(rows, id).ret
    ELSE IF entity = "location"
    THEN (IF CodeLocationSchemaOK(rows[id]) THEN {rows[id]} ELSE {})
    ELSE (IF ImplementationSchemaOK(rows[id]) THEN {rows[id]} ELSE {})

\* the columns an update statement may write besides those the patch names
Stamped(entity) == IF entity = "task" THEN {"updated_at"} ELSE {}

\* C14: after a successful update(id, patch) a read of the row yields exactly
\* the entity update returned: the fields the patch names hold the new
\* values, every other field holds the value it had in storage before.
C14_UpdateReadBack ==
    [][(lastRepo'.op = "update" /\ lastRepo'.outcome = "ok") =>
        LET e == lastRepo'.entity
            id == lastRepo'.id
            patch == LastPatch(lastRepo')
            old == RowsOf(e, taskRows, locationRows, implRows)[id]
            new == RowsOf(e, taskRows', locationRows', implRows')[id]
        IN  /\ ReadRow(e, RowsOf(e, taskRows', locationRows', implRows'), id)
                 = lastRepo'.ret
            /\ \A f \in DOMAIN old :
                 IF f \in DOMAIN patch THEN new[f] = patch[f]
                 ELSE f \in Stamped(e) \/ new[f] = old[f]]_vars

EntitySchemaOK(entity, e) ==
    IF entity = "task" THEN TaskSchemaOK(e)
    ELSE IF entity = "location" THEN CodeLocationSchemaOK(e)
    ELSE ImplementationSchemaOK(e)

\* C15: update(id, patch) raises NotFoundError if and only if the table has
\* no row with that id; for an existing id every patch whose merged entity
\* is schema-valid succeeds, also one that does not name task_id.
C15_UpdateNotFound ==
    [][lastRepo'.op = "update" =>
        LET e == lastRepo'.entity
            id == lastRepo'.id
            rows == RowsOf(e, taskRows, locationRows, implRows)
        IN  /\ lastRepo'.outcome = "NotFoundError" <=> id \notin DOMAIN rows
            /\ (id \in DOMAIN rows /\
                EntitySchemaOK(e, Merge(rows[id], LastPatch(lastRepo')))
                   => lastRepo'.outcome = "ok")]_vars

\* C16: an entity returned by create, with any of its optional fields
\* omitted, is returned by a subsequent findById or findByTaskId with the
\* same field values and without a validation error.
C16_CreateRoundTrip ==
    [][(lastRepo'.op = "create" /\ lastRepo'.outcome = "ok") =>
        LET e == lastRepo'.entity
        IN  ReadRow(e, RowsOf(e, taskRows', locationRows', implRows'),
                    lastRepo'.id) = lastRepo'.ret]_vars

\* C17: every CodeLocation row and every Implementation row references a
\* Task row that exists, also after deletes of tasks.
C17_NoDanglingRows ==
    /\ \A i \in DOMAIN locationRows :
          locationRows[i].task_id \in DOMAIN taskRows
    /\ \A i \in DOMAIN implRows : implRows[i].task_id \in DOMAIN taskRows

\* a delete of a task that rows reference was refused
C17_Witness ==
    /\ lastRepo.op = "delete"
    /\ lastRepo.outcome = "DatabaseError"
    /\ TaskSchemaOK(taskRows[lastRepo.id])
    /\ \E i \in DOMAIN locationRows : locationRows[i].task_id = lastRepo.id
    /\ \E i \in DOMAIN implRows : implRows[i].task_id = lastRepo.id

\* ------------------------------------------ claims about the orchestrator
\* C18: recordImplementation(T, ...) on an existing task, when the
\* Implementation write itself does not fail, succeeds and persists exactly
\* one new Implementation row, with task id T and the given success rating;
\* it leaves the branches, the current branch and all Task rows unchanged.
C18_RecordImplementation ==
    [][(/\ lastCall'.op = "recordImplementation"
        /\ lastCall'.id \in DOMAIN tasks
        /\ lastCall'.failedStep # "implementationWrite")
       => /\ lastCall'.outcome = "ok"
          /\ Len(implementations') = Len(implementations) + 1
          /\ SubSeq(implementations', 1, Len(implementations))
               = implementations
          /\ implementations'[Len(implementations')] =
               [task_id |-> lastCall'.id, success_rating |-> "valid"]
          /\ UNCHANGED <<tasks, branches, currentBranch, merged>>]_vars

\* ---------------------------------------- claims about the branch service
\* the branch the service takes for the default branch
DefaultBranch ==
    IF variant = "mock" \/ mainBranch = NullBranch THEN MASTER
    ELSE mainBranch

\* C19: after the branch service's completeTask returns, whether it
\* succeeded or raised, the current branch is the default branch, for the
\* real and for the in-memory implementation and for every failing step.
C19_EndsOnDefaultBranch ==
    lastGit.op = "completeTask" => currentBranch = DefaultBranch

\* C20: on every error path of RealGitService.completeTask the working copy
\* is not left in the middle of a merge or rebase, and both `git merge
\* --abort` and `git rebase --abort` were attempted before the GitError
\* propagates, whichever step failed.
C20_AbortsAttempted ==
    (lastGit.op = "completeTask" /\ variant = "real" /\
     lastGit.outcome # "ok")
       => /\ lastGit.outcome = "GitError"
          /\ inProgress = "none"
          /\ lastGit.aborts = {"merge", "rebase"}

\* C21: createBranch(taskId) fails with a GitError when a branch named
\* task/<taskId> already exists, in RealGitService and in MockGitService
\* alike.
C21_CollisionFails ==
    [][(lastGit'.op = "createBranch" /\
        TaskBranch(lastGit'.id) \in branches)
          => lastGit'.outcome = "GitError"]_vars

\* C22: every branch RealGitService.createBranch creates is created from
\* the default branch, not from whichever task branch is checked out, also
\* when the service's first branch operation happens on a task branch.
C22_CreatedFromDefault ==
    [][(lastGit'.op = "createBranch" /\ lastGit'.outcome = "ok" /\
        variant = "real")
          => StartPoint(mainBranch, HereWC) = MASTER]_vars

\* the steps of an orchestrator operation that are version-control calls
GitSteps == {"branch", "branchRead"}

\* C23: every failure of a version-control call made during an orchestrator
\* operation, also of reading the current branch in addCodeLocation,
\* reaches the caller as GitError, never as a storage error or a raw error
\* (unless the compensating storage write failed on top of it).
C23_GitFailureIsGitError ==
    (lastCall.failedStep \in GitSteps /\ lastCall.cleanup # "failed")
        => lastCall.outcome = "GitError"

\* C24: for an existing task, updateTaskStatus(T, s), when the UPDATE itself
\* does not fail, succeeds whatever the current status is (also when it is
\* completed), changes nothing but T's status, which becomes one of the
\* four statuses, and performs no branch operation.
C24_AnyTransition ==
    [][(/\ lastCall'.op = "updateTaskStatus"
        /\ lastCall'.id \in DOMAIN tasks
        /\ lastCall'.failedStep # "statusWrite")
       => /\ lastCall'.outcome = "ok"
          /\ \E s \in TaskStatus :
               tasks' = [tasks EXCEPT ![lastCall'.id].status = s]
          /\ UNCHANGED <<branches, currentBranch, merged, mainBranch,
                         codeLocations, implementations>>]_vars

\* the key used longest ago: set and get move the key they use to the front
LeastRecentlyUsed(order) == order[Len(order)]

\* the cache holds maxEntries entries and none of them has expired
FullOfLive ==
    /\ Cardinality(DOMAIN cache) = MaxEntries
    /\ \A k \in DOMAIN cache : ~(cacheNow > cache[k].expiresAt)

\* C25: when the cache holds maxEntries unexpired entries and set is called
\* with a key it does not hold, the entry that leaves is the least recently
\* used one, and every other entry, the most recently used one included,
\* stays in the cache next to the new one.
C25_EvictsLeastRecentlyUsed ==
    [][(lastCache'.op = "set" /\ FullOfLive /\ lastCache'.key \notin DOMAIN cache)
          => DOMAIN cache' = (DOMAIN cache \ {LeastRecentlyUsed(accessOrder)})
                                 \cup {lastCache'.key}]_vars

\* C26: a get that returns an entry refreshes its expiration: from that
\* access on the entry stays in the cache for a further full time-to-live
\* (the one its set asked for), so its expiry time is no earlier than the
\* time of the access plus that time-to-live.
C26_GetRefreshesExpiry ==
    [][(lastCache'.op = "get" /\ lastCache'.result # "null")
          => /\ lastCache'.key \in DOMAIN cache'
             /\ cache'[lastCache'.key].expiresAt
                    >= cacheNow' + claimed[lastCache'.key].ttl]_vars

\* C27: the entry stored by set(key, value, ttl) is returned by get at every
\* time up to set-time + ttl (set-time + defaultTTL when no ttl is given) and
\* get returns null at every later time, counted from the last set of the
\* key; an expired entry is never returned.  Keys that were removed to make
\* room or by clear since their last set are left out.
C27_ExpiryContract ==
    [][(/\ lastCache'.op = "get"
        /\ lastCache'.key \in DOMAIN claimed
        /\ lastCache'.key \notin dropped)
          => lastCache'.result =
                 IF cacheNow' > claimed[lastCache'.key].expiresAt
                 THEN "null"
                 ELSE claimed[lastCache'.key].data]_vars

\* the applied list as the service reads it from its database
AppliedList == GetAppliedMigrations(migRecords[svcDb])

DroppedNames(m) == {DownSteps(m)[i].name : i \in DOMAIN DownSteps(m)}

C30_FailedUpNotRecorded ==
    [][(lastMig'.op = "applyMigrations" /\ lastMig'.failedUps # {})
          => /\ lastMig'.outcome = "rejected"
             /\ lastMig'.failedUps \cap migRecords'[svcDb] = {}]_vars

\* C36: after any sequence of set, get and clear calls the number of entries
\* the cache stores never exceeds maxEntries.
C36_SizeBounded == Cardinality(DOMAIN cache) <= MaxEntries

\* a set found the cache full, removed an entry and left it full again
C36_Witness ==
    /\ lastCache.op = "set"
    /\ lastCache.evicted # {}
    /\ Cardinality(DOMAIN cache) = MaxEntries

\* C37: a set with a key the cache already holds, made while the cache holds
\* maxEntries unexpired entries, only replaces that key's value and expiry:
\* the cache keeps the same keys and every other entry is as it was.
C37_OverwriteEvictsNothing ==
    [][(lastCache'.op = "set" /\ FullOfLive /\ lastCache'.key \in DOMAIN cache)
          => /\ DOMAIN cache' = DOMAIN cache
             /\ \A k \in DOMAIN cache \ {lastCache'.key} : cache'[k] = cache[k]]_vars

\* C34: in every state reached by orchestrator operations executed one after
\* the other on a branch service that does not fail, every persisted task
\* whose status is not COMPLETED has its branch task/<id>.
C34_OpenTaskHasBranch ==
    \A id \in DOMAIN tasks :
        tasks[id].status # COMPLETED => TaskBranch(id) \in branches

\* C35: in every state reached by orchestrator operations executed one after
\* the other, a persisted task whose status is COMPLETED has no branch
\* task/<id> left in the branch service.
C35_CompletedHasNoBranch ==
    \A id \in DOMAIN tasks :
        tasks[id].status = COMPLETED => TaskBranch(id) \notin branches

\* C31: the check of the current branch and the write of addCodeLocation(A)
\* are not one atomic step: once the branch that was read is task/<A>, the
\* CodeLocation tagged task/<A> is persisted whatever branch is checked out
\* when the write happens, so there is an interleaving with a concurrent
\* completeTask (C31_Witness) in which it is persisted while the working
\* copy is no longer on task/<A>.
C31_WriteOfStaleCheck ==
    [][\A p \in ConcProcs :
          (/\ procs[p].op = "addCodeLocation"
           /\ procs[p].pc = "locationWrite"
           /\ procs[p].seen = TaskBranch(procs[p].id)
           /\ procs'[p].pc = "done")
             => /\ procs'[p].outcome = "ok"
                /\ Len(codeLocations') = Len(codeLocations) + 1
                /\ codeLocations'[Len(codeLocations')].task_id = procs[p].id
                /\ codeLocations'[Len(codeLocations')].git_branch
                       = TaskBranch(procs[p].id)]_vars

\* a location tagged task/<A> was written while a concurrent completeTask
\* had moved the working copy off task/<A>
C31_Witness ==
    \E p \in ConcProcs, q \in ConcProcs :
        /\ procs[p].op = "addCodeLocation"
        /\ procs[p].outcome = "ok"
        /\ procs[p].stale
        /\ procs[q].op = "completeTask"
        /\ currentBranch # TaskBranch(procs[p].id)
        /\ \E k \in DOMAIN codeLocations :
               codeLocations[k].git_branch = TaskBranch(procs[p].id)

\* C32: when two completeTask(T) calls run concurrently on a task whose
\* branch exists (no git command fails for a reason of its own), then once
\* both have ended T's status is COMPLETED and branch task/<T> is removed:
\* the compensation of the losing call does not write the old status back
\* over the winner's COMPLETED.
C32_ConcurrentCompletesConsistent ==
    \A p \in ConcProcs : \A q \in ConcProcs \ {p} :
        (/\ procs[p].op = "completeTask" /\ procs[p].pc = "done"
         /\ procs[q].op = "completeTask" /\ procs[q].pc = "done"
         /\ procs[p].id = procs[q].id
         /\ procs[q].raced
         /\ ~procs[p].fault /\ ~procs[q].fault)
            => /\ tasks[procs[p].id].status = COMPLETED
               /\ TaskBranch(procs[p].id) \notin branches

\* C33: when completeTask(T) fails in its branch step and an
\* updateTaskStatus(T, s) call completed between completeTask's initial read
\* of T and its compensation write, then once both have ended the persisted
\* status of T is s: the compensation does not overwrite the status written
\* concurrently.
C33_CompensationKeepsConcurrentStatus ==
    \A p \in ConcProcs : \A q \in ConcProcs \ {p} :
        (/\ procs[p].op = "completeTask" /\ procs[p].pc = "done"
         /\ procs[p].failed = "branch"
         /\ procs[q].op = "updateTaskStatus" /\ procs[q].pc = "done"
         /\ procs[q].outcome = "ok"
         /\ procs[q].id = procs[p].id
         /\ procs[q].raced)
            => tasks[procs[p].id].status = procs[q].arg

====
